---------------------------- MODULE Spec2Model ----------------------------
(***************************************************************************)
(* A model of the build-utils crate (WolverinDEV/build-utils):             *)
(*   - the build-identity hash of BuildBuilder::build (src/build/mod.rs),  *)
(*   - the TemporaryPath handle (src/util.rs),                             *)
(*   - the orchestrator Build::execute (src/build/mod.rs),                 *)
(*   - the MesonBuild step (src/build/meson.rs).                           *)
(* Strings are sequences of bytes.  A 64-bit word is a tuple of four       *)
(* 16-bit limbs, least significant first, so that the arithmetic of the    *)
(* hasher keeps its width.  The target is 64-bit, little-endian.           *)
(***************************************************************************)
EXTENDS Integers, Sequences, FiniteSets, TLC

VARIABLES
  env,          \* the process environment: variable name -> value
  tool,         \* what the meson binary of this machine can do: how its
                \* subprocesses can end and what they can print
  fs,           \* the directories that exist
  inner,        \* every TemporaryPathInner made so far, in order of creation
  builder,      \* [1..2 -> None | Some(BuildBuilder)]
  build,        \* [1..2 -> None | Some(Result<Build, BuildCreateError>)]
  call,         \* the execute call in progress, or None
  log,          \* [1..2 -> what happened to the Build, in order]
  dropped       \* the Builds that were destroyed

tmpVars == <<fs, inner>>
execVars == <<call, log, dropped>>
buildVars == <<env, tool, builder, build, call, log, dropped>>
vars == <<env, tool, fs, inner, builder, build, call, log, dropped>>

\* Option<T>: None is the empty sequence, Some(x) the sequence <<x>>
None == <<>>
Some(x) == <<x>>
IsSome(o) == o # <<>>

-----------------------------------------------------------------------------
(* 64-bit words and std's DefaultHasher (SipHash-1-3 with the key 0, 0).   *)

LimbBase == 65536

\* xor of two 4-bit numbers
Xor4(a, b) ==
    (((a % 2) + (b % 2)) % 2)
  + 2 * ((((a \div 2) % 2) + ((b \div 2) % 2)) % 2)
  + 4 * ((((a \div 4) % 2) + ((b \div 4) % 2)) % 2)
  + 8 * ((((a \div 8) % 2) + ((b \div 8) % 2)) % 2)

\* xor of two bytes, as a table
Xor8T ==
  [a \in 0..255 |-> [b \in 0..255 |->
      Xor4(a % 16, b % 16) + 16 * Xor4(a \div 16, b \div 16)]]

\* xor of two 16-bit limbs
Xor16(a, b) ==
  Xor8T[a % 256][b % 256] + 256 * Xor8T[a \div 256][b \div 256]

\* u64 ^ u64
Xor64(x, y) ==
  <<Xor16(x[1], y[1]), Xor16(x[2], y[2]), Xor16(x[3], y[3]), Xor16(x[4], y[4])>>

\* u64.wrapping_add(u64)
Add64(x, y) ==
  LET s1 == x[1] + y[1]
      s2 == x[2] + y[2] + (s1 \div LimbBase)
      s3 == x[3] + y[3] + (s2 \div LimbBase)
      s4 == x[4] + y[4] + (s3 \div LimbBase)
  IN  <<s1 % LimbBase, s2 % LimbBase, s3 % LimbBase, s4 % LimbBase>>

\* rotate left by whole limbs: n \in 0..3
RotLimbs(x, n) ==
  <<x[((4 - n) % 4) + 1], x[((5 - n) % 4) + 1], x[((6 - n) % 4) + 1], x[((7 - n) % 4) + 1]>>

\* u64.rotate_left(b), b \in 0..63
Rotl64(x, b) ==
  LET y == RotLimbs(x, b \div 16)
      s == b % 16
      p == 2 ^ s
      q == 2 ^ (16 - s)
  IN  IF s = 0 THEN y
      ELSE <<((y[1] % q) * p) + (y[4] \div q),
             ((y[2] % q) * p) + (y[1] \div q),
             ((y[3] % q) * p) + (y[2] \div q),
             ((y[4] % q) * p) + (y[3] \div q)>>

\* F(e), with e evaluated once and handed to F as a value
ByValue(F(_), e) == CHOOSE r \in {F(x) : x \in {e}} : TRUE

\* the four quarters of a SipRound over the state <<v0, v1, v2, v3>>:
\*   v0 += v1; v2 += v3
SipAdd1(v) == <<Add64(v[1], v[2]), v[2], Add64(v[3], v[4]), v[4]>>
\*   v1 = rotl(v1, 13) ^ v0; v0 = rotl(v0, 32); v3 = rotl(v3, 16) ^ v2
SipMix1(v) ==
  <<Rotl64(v[1], 32), Xor64(Rotl64(v[2], 13), v[1]), v[3],
    Xor64(Rotl64(v[4], 16), v[3])>>
\*   v0 += v3; v2 += v1
SipAdd2(v) == <<Add64(v[1], v[4]), v[2], Add64(v[3], v[2]), v[4]>>
\*   v3 = rotl(v3, 21) ^ v0; v1 = rotl(v1, 17) ^ v2; v2 = rotl(v2, 32)
SipMix2(v) ==
  <<v[1], Xor64(Rotl64(v[2], 17), v[3]), Rotl64(v[3], 32),
    Xor64(Rotl64(v[4], 21), v[1])>>

SipRound3(v) == ByValue(SipMix2, SipAdd2(v))
SipRound2(v) == ByValue(SipRound3, SipMix1(v))
\* one SipRound
SipRound(v) == ByValue(SipRound2, SipAdd1(v))

\* the little-endian word of the (at most 8) bytes bs[from..from+7]; bytes
\* past the end of bs read as 0
WordAt(bs, from) ==
  LET B(k) == IF from + k <= Len(bs) THEN bs[from + k] ELSE 0
  IN  <<B(0) + 256 * B(1), B(2) + 256 * B(3), B(4) + 256 * B(5), B(6) + 256 * B(7)>>

\* one message word m: v3 ^= m; c_rounds (1); v0 ^= m.  vm is <<v, m>>.
SipXorOut(wm) == <<Xor64(wm[1][1], wm[2]), wm[1][2], wm[1][3], wm[1][4]>>
SipXorIn(vm) == <<vm[1][1], vm[1][2], vm[1][3], Xor64(vm[1][4], vm[2])>>
SipRoundKeep(vm) == <<SipRound(vm[1]), vm[2]>>
SipCompress2(vm) == ByValue(SipXorOut, SipRoundKeep(vm))
SipCompress1(vm) == ByValue(SipCompress2, <<SipXorIn(vm), vm[2]>>)
SipCompress(v, m) == ByValue(SipCompress1, <<v, m>>)

\* the last word: the remaining bytes and, in the top byte, the length
LastWord(bs, from) ==
  LET t == WordAt(bs, from)
  IN  <<t[1], t[2], t[3], (t[4] % 256) + 256 * (Len(bs) % 256)>>

RECURSIVE SipBlocks(_, _, _)
\* the state after the words of bs from position from on; bs is a value
SipBlocks(v, bs, from) ==
  IF from + 7 <= Len(bs)
    THEN CHOOSE r \in {SipBlocks(w, bs, from + 8) :
                         w \in {SipCompress(v, WordAt(bs, from))}} : TRUE
    ELSE SipCompress(v, LastWord(bs, from))

\* DefaultHasher::new(): SipHasher13 with k0 = k1 = 0
SipInit ==
  << <<25973, 28787, 28005, 29551>>,    \* 0x736f6d6570736575
     <<28525, 28260, 29281, 25711>>,    \* 0x646f72616e646f6d
     <<29281, 28261, 26469, 27769>>,    \* 0x6c7967656e657261
     <<25971, 31092, 25698, 29797>> >>  \* 0x7465646279746573

\* v2 ^= 0xff, before the d_rounds
SipXorFf(v) == <<v[1], v[2], Xor64(v[3], <<255, 0, 0, 0>>), v[4]>>
\* v0 ^ v1 ^ v2 ^ v3
SipFold(v) == Xor64(Xor64(v[1], v[2]), Xor64(v[3], v[4]))
SipD3(v) == ByValue(SipFold, SipRound(v))
SipD2(v) == ByValue(SipD3, SipRound(v))
SipD1(v) == ByValue(SipD2, SipRound(v))
SipFinal(v) == ByValue(SipD1, SipXorFf(v))
SipHash13(bs) == ByValue(SipFinal, SipBlocks(SipInit, bs, 1))

\* Hasher::finish of a hasher that was fed the bytes bs
SipFinish(bs) == ByValue(SipHash13, bs)

-----------------------------------------------------------------------------
(* What each value feeds to the hasher (impl Hash of std, 64-bit target).   *)

\* a small unsigned integer as the 8 little-endian bytes of a u64 / usize
U64LE(n) == <<n % 256, (n \div 256) % 256, 0, 0, 0, 0, 0, 0>>

\* impl Hash for str (and String): the bytes, then 0xff
StrHash(s) == s \o <<255>>

\* impl Hash for Option<T> given T's contribution: the discriminant, then T
OptHash(o, H(_)) == IF IsSome(o) THEN U64LE(1) \o H(o[1]) ELSE U64LE(0)

RECURSIVE CompsHash(_)
\* the Normal components of a path: discriminant 4, then the OsStr as a byte
\* slice (length, bytes)
CompsHash(cs) ==
  IF cs = <<>> THEN <<>>
  ELSE U64LE(4) \o U64LE(Len(Head(cs))) \o Head(cs) \o CompsHash(Tail(cs))

\* impl Hash for Path: every component in turn; RootDir is discriminant 1
PathHash(p) == (IF p.root THEN U64LE(1) ELSE <<>>) \o CompsHash(p.comps)

\* #[derive(Hash)] enum LibraryType { Static, Shared }
LibraryTypeHash(t) == U64LE(IF t = "Static" THEN 0 ELSE 1)

\* BuildSource::hash of the three sources of the crate
SourceHash(src) ==
  CASE src.kind = "git" ->
         StrHash(src.repository_url) \o OptHash(src.revision, StrHash)
    [] src.kind = "directory" -> PathHash(src.path)
    [] OTHER -> <<>>   \* DummyBuildSource: feeds nothing

-----------------------------------------------------------------------------
(* MesonBuild and its builder.  meson_options is a HashMap: a function      *)
(* from keys to values together with the order in which iter() visits the   *)
(* keys.  That order is fixed by the map's RandomState, which differs from  *)
(* map to map and from run to run, so any order is possible.                *)

\* "meson build"
MesonName == <<109, 101, 115, 111, 110, 32, 98, 117, 105, 108, 100>>
\* "dummy"
DummyName == <<100, 117, 109, 109, 121>>

\* MesonBuildBuilder::new()
MesonBuildBuilderNew ==
  [kind |-> "meson", meson_options |-> [k \in {} |-> <<>>], order |-> <<>>,
   callback_promote |-> FALSE]

\* the DummyBuildStep of the crate's test
DummyBuildStep == [kind |-> "dummy"]

InsertAt(seq, pos, x) ==
  SubSeq(seq, 1, pos - 1) \o <<x>> \o SubSeq(seq, pos, Len(seq))

\* MesonBuildBuilder::meson_option: HashMap::insert.  An existing key keeps
\* its place and gets the new value; a new key lands at the place pos its
\* hash gives it.
meson_option(b, k, v, pos) ==
  IF k \in DOMAIN b.meson_options
    THEN [b EXCEPT !.meson_options[k] = v]
    ELSE [b EXCEPT
            !.meson_options =
               [x \in (DOMAIN b.meson_options) \cup {k} |->
                  IF x = k THEN v ELSE b.meson_options[x]],
            !.order = InsertAt(b.order, pos, k)]

\* MesonBuildBuilder::promote_callback
promote_callback(b) == [b EXCEPT !.callback_promote = TRUE]

\* BuildStep::name
StepName(step) == IF step.kind = "meson" THEN MesonName ELSE DummyName

RECURSIVE MesonHashFrom(_, _)
MesonHashFrom(step, i) ==
  IF i > Len(step.order) THEN <<>>
  ELSE StrHash(step.order[i]) \o StrHash(step.meson_options[step.order[i]])
         \o MesonHashFrom(step, i + 1)

RECURSIVE MesonHashKeysFrom(_, _)
MesonHashKeysFrom(step, i) ==
  IF i > Len(step.order) THEN <<>>
  ELSE StrHash(step.order[i]) \o MesonHashKeysFrom(step, i + 1)

\* a MesonBuild::hash that feeds the keys and forgets the values
StepHashKeysOnly(step) ==
  IF step.kind = "meson" THEN MesonHashKeysFrom(step, 1) ELSE <<>>

\* BuildStep::hash: MesonBuild feeds key, value of every option in the
\* order of meson_options.iter(); DummyBuildStep feeds nothing
StepHash(step) ==
  IF step.kind = "meson" THEN MesonHashFrom(step, 1) ELSE <<>>

-----------------------------------------------------------------------------
(* BuildBuilder::build: the build hash and the working-directory name.      *)

RECURSIVE StepsHashFrom(_, _)
\* steps.iter().enumerate(): index, name, hash of every step
StepsHashFrom(steps, i) ==
  IF i > Len(steps) THEN <<>>
  ELSE U64LE(i - 1) \o StrHash(StepName(steps[i])) \o StepHash(steps[i])
         \o StepsHashFrom(steps, i + 1)

\* the bytes the hasher is fed: name, source, install_prefix, library_type,
\* then the steps.  b is the builder (self), the other two are resolved.
BuildHashInput(b, prefix, ltype) ==
  StrHash(b.name[1]) \o SourceHash(b.source[1]) \o OptHash(prefix, PathHash)
    \o LibraryTypeHash(ltype) \o StepsHashFrom(b.steps, 1)

\* a build hash that also feeds remove_build_dir to the hasher
build_hash_with_remove_flag(b, prefix, ltype) ==
  SipFinish(BuildHashInput(b, prefix, ltype)
              \o <<IF b.remove_build_dir THEN 1 ELSE 0>>)

\* build_hash
build_hash(b, prefix, ltype) == SipFinish(BuildHashInput(b, prefix, ltype))

\* u64::to_be_bytes
ToBeBytes(h) ==
  <<h[4] \div 256, h[4] % 256, h[3] \div 256, h[3] % 256,
    h[2] \div 256, h[2] % 256, h[1] \div 256, h[1] % 256>>

\* the character of a 6-bit value in the standard base64 alphabet
Base64Char(n) ==
  CASE n < 26 -> 65 + n
    [] n >= 26 /\ n < 52 -> 97 + (n - 26)
    [] n >= 52 /\ n < 62 -> 48 + (n - 52)
    [] n = 62 -> 43
    [] OTHER -> 47

RECURSIVE Base64Encode(_)
\* base64::encode: three bytes to four characters, '=' padding at the end
Base64Encode(bs) ==
  CASE Len(bs) = 0 -> <<>>
    [] Len(bs) = 1 ->
         <<Base64Char(bs[1] \div 4), Base64Char((bs[1] % 4) * 16), 61, 61>>
    [] Len(bs) = 2 ->
         <<Base64Char(bs[1] \div 4),
           Base64Char((bs[1] % 4) * 16 + (bs[2] \div 16)),
           Base64Char((bs[2] % 16) * 4), 61>>
    [] OTHER ->
         <<Base64Char(bs[1] \div 4),
           Base64Char((bs[1] % 4) * 16 + (bs[2] \div 16)),
           Base64Char((bs[2] % 16) * 4 + (bs[3] \div 64)),
           Base64Char(bs[3] % 64)>> \o Base64Encode(SubSeq(bs, 4, Len(bs)))

\* a token in which the '/' of base64 stay
KeepSlash(s) == s

\* str::replace("/", "_")
ReplaceSlash(s) == [i \in 1..Len(s) |-> IF s[i] = 47 THEN 95 ELSE s[i]]

\* hash_str
HashStr(h) == ReplaceSlash(Base64Encode(ToBeBytes(h)))

\* format!("build_{}_{}", &name, hash_str)
BuildFolderName(name, h) ==
  <<98, 117, 105, 108, 100, 95>> \o name \o <<95>> \o HashStr(h)


-----------------------------------------------------------------------------
(* Paths, the directory tree and the environment.                           *)

RECURSIVE Pieces(_)
\* the pieces of a name between its '/'
Pieces(s) ==
  IF s = <<>> THEN << <<>> >>
  ELSE LET rest == Pieces(Tail(s))
       IN  IF s[1] = 47 THEN << <<>> >> \o rest
           ELSE << <<s[1]>> \o rest[1] >> \o Tail(rest)

\* Path::components of a name: its pieces, the empty ones left out
Components(s) == SelectSeq(Pieces(s), LAMBDA c : c # <<>>)

\* a path is [root, comps]: absolute or not, and its Normal components.
\* PathBuf::join: a name that starts with '/' replaces the base, another
\* one adds its components
Join(base, folder_name) ==
  IF folder_name # <<>> /\ folder_name[1] = 47
    THEN [root |-> TRUE, comps |-> Components(folder_name)]
    ELSE [base EXCEPT !.comps = @ \o Components(folder_name)]

IsPrefix(p, q) ==
  /\ p.root = q.root
  /\ Len(p.comps) <= Len(q.comps)
  /\ SubSeq(q.comps, 1, Len(p.comps)) = p.comps

\* std::fs::create_dir_all: the directory and every missing ancestor
CreateDirAll(dirs, p) ==
  dirs \cup {[root |-> p.root, comps |-> SubSeq(p.comps, 1, n)] : n \in 1..Len(p.comps)}

\* std::fs::remove_dir_all: the directory and everything below it
RemoveDirAll(dirs, p) == {q \in dirs : ~IsPrefix(p, q)}

\* env::temp_dir(): /tmp
TempDir == [root |-> TRUE, comps |-> << <<116, 109, 112>> >>]

\* env::var(name): Ok(value) is Some(value)
EnvVar(e, var) == IF var \in DOMAIN e THEN Some(e[var]) ELSE None

\* "OUT_DIR"
OutDirVar == <<79, 85, 84, 95, 68, 73, 82>>
\* "library_type"
LibraryTypeKey == <<108, 105, 98, 114, 97, 114, 121, 95, 116, 121, 112, 101>>
\* "install_prefix"
InstallPrefixKey == <<105, 110, 115, 116, 97, 108, 108, 95, 112, 114, 101, 102, 105, 120>>

\* format!("rbuild_{}_{}", build_name, key)
FullName(build_name, key) ==
  <<114, 98, 117, 105, 108, 100, 95>> \o build_name \o <<95>> \o key
\* format!("rbuild_{}", key)
FallbackName(key) == <<114, 98, 117, 105, 108, 100, 95>> \o key

\* a lookup that asks for the general variable first
resolve_env_var_general_first(e, build_name, key) ==
  IF IsSome(EnvVar(e, FallbackName(key)))
    THEN EnvVar(e, FallbackName(key))
    ELSE EnvVar(e, FullName(build_name, key))

\* resolve_env_var!(build_name, key)
resolve_env_var(e, build_name, key) ==
  IF IsSome(EnvVar(e, FullName(build_name, key)))
    THEN EnvVar(e, FullName(build_name, key))
    ELSE EnvVar(e, FallbackName(key))

\* str::to_lowercase on ASCII
ToLowercase(s) == [i \in 1..Len(s) |-> IF s[i] >= 65 /\ s[i] <= 90 THEN s[i] + 32 ELSE s[i]]

\* parse_build_library_type: "static" and "shared", any case
parse_build_library_type(library_type) ==
  CASE ToLowercase(library_type) = <<115, 116, 97, 116, 105, 99>> -> Some("Static")
    [] ToLowercase(library_type) = <<115, 104, 97, 114, 101, 100>> -> Some("Shared")
    [] OTHER -> None

\* build_library_type: Ok(t), Err(InvalidValue(value)) or Err(NotPresent)
build_library_type(e, build_name) ==
  LET value == resolve_env_var(e, build_name, LibraryTypeKey)
  IN  IF IsSome(value)
        THEN IF IsSome(parse_build_library_type(value[1]))
               THEN [ok |-> TRUE, value |-> parse_build_library_type(value[1])[1]]
               ELSE [ok |-> FALSE, error |-> "InvalidValue", value |-> value[1]]
        ELSE [ok |-> FALSE, error |-> "NotPresent", value |-> <<>>]

\* PathBuf::from(string): the string split at '/' is not modelled; a value
\* of an environment variable that names a directory is one component
\* below the root
PathFromString(str) == [root |-> TRUE, comps |-> <<str>>]

\* install_prefix(build_name): the environment's prefix, else OUT_DIR
install_prefix(e, build_name) ==
  IF IsSome(resolve_env_var(e, build_name, InstallPrefixKey))
    THEN Some(PathFromString(resolve_env_var(e, build_name, InstallPrefixKey)[1]))
    ELSE IF IsSome(EnvVar(e, OutDirVar))
           THEN Some(PathFromString(EnvVar(e, OutDirVar)[1]))
           ELSE None

-----------------------------------------------------------------------------
(* TemporaryPath: an Arc<TemporaryPathInner>.  An inner is [path,           *)
(* released, strong]; strong is the Arc's count of owners, 0 once the       *)
(* inner was dropped.  Every clone of a TemporaryPath holds the same Arc,   *)
(* so the owners of one inner share its released flag.                      *)

\* the path create_temporary_path makes
TemporaryPathOf(e, folder_name, base_dir) ==
  IF IsSome(base_dir) THEN Join(base_dir[1], folder_name)
  ELSE IF IsSome(EnvVar(e, OutDirVar))
         THEN Join(PathFromString(EnvVar(e, OutDirVar)[1]), folder_name)
         ELSE Join(TempDir, folder_name)

\* Arc::new(TemporaryPathInner{ path, released }).  release_called is not
\* a field of the code: it records that release() was called on an owner.
NewInner(path, released) ==
  [path |-> path, released |-> released, strong |-> 1, release_called |-> FALSE]

\* a release whose store is lost
ReleaseInnerNoStore(inners, h) == [inners EXCEPT ![h].release_called = TRUE]

\* TemporaryPath::release: the flag is written through the shared
\* reference.  The store goes to the Arc's heap allocation and the program
\* is single-threaded, so it takes effect.
ReleaseInner(inners, h) ==
  [inners EXCEPT ![h].released = TRUE, ![h].release_called = TRUE]

\* TemporaryPath::clone: one more owner of the same inner
CloneInner(inners, h) == [inners EXCEPT ![h].strong = @ + 1]

\* drop of one owner
DropOwner(inners, h) == [inners EXCEPT ![h].strong = @ - 1]

\* a drop that removes nothing
DropDirsNever(dirs, inners, h) == dirs

\* a drop that forgets to look at the released flag
DropDirsIgnoringRelease(dirs, inners, h) ==
  IF inners[h].strong = 1 THEN RemoveDirAll(dirs, inners[h].path) ELSE dirs

\* the directories after the drop of one owner: the drop of the last owner
\* runs TemporaryPathInner::drop, which removes the tree unless released (a
\* failing remove_dir_all is only logged)
DropDirs(dirs, inners, h) ==
  IF inners[h].strong = 1 /\ ~inners[h].released
    THEN RemoveDirAll(dirs, inners[h].path)
    ELSE dirs


-----------------------------------------------------------------------------
(* BuildBuilder::build                                                      *)

Ok(v) == [ok |-> TRUE, value |-> v]
Err(kind, v) == [ok |-> FALSE, error |-> kind, value |-> v]

\* an entry of log: what happened (ev), to which step (idx, 0 if none),
\* with which outcome (ok), and what it carried (info)
Event(ev, idx, ok, info) == [ev |-> ev, idx |-> idx, ok |-> ok, info |-> info]
\* no call in progress, nothing logged, nothing destroyed
Idle == call = None /\ log = <<<<>>, <<>>>> /\ dropped = {}
\* a machine without a meson binary: every subprocess fails to start
NoTool ==
  [statuses |-> {"spawn_failed"}, setup_stdouts |-> {<<>>},
   promote_files |-> {<<>>}, install_stdouts |-> {<<>>},
   git_status |-> "unchecked"]

\* BuildBuilder::new()
BuildBuilderNew ==
  [name |-> None, source |-> None, steps |-> <<>>, library_type |-> None,
   install_prefix |-> None, build_path |-> None, remove_build_dir |-> TRUE]

\* the resolved install prefix
ResolvedPrefix(e, b) ==
  IF IsSome(b.install_prefix) THEN b.install_prefix
  ELSE install_prefix(e, b.name[1])

\* a resolution that takes a value of the environment that names no kind
\* for no value
ResolvedLibraryTypeLenient(e, b) ==
  IF IsSome(b.library_type) THEN Ok(b.library_type[1])
  ELSE IF build_library_type(e, b.name[1]).ok
    THEN Ok(build_library_type(e, b.name[1]).value)
  ELSE Ok("Shared")

\* the resolved library type, as a Result
ResolvedLibraryType(e, b) ==
  IF IsSome(b.library_type) THEN Ok(b.library_type[1])
  ELSE LET r == build_library_type(e, b.name[1])
       IN  CASE r.ok -> Ok(r.value)
             [] ~r.ok /\ r.error = "InvalidValue" -> Err("InvalidEnvLibraryType", r.value)
             [] OTHER -> Ok("Shared")

\* the Build that build() returns for the builder b once the directory
\* exists; build_path is the index of its TemporaryPathInner
NewBuild(e, b, h, handle) ==
  [name |-> b.name[1], source |-> b.source[1], build_hash |-> h,
   steps |-> b.steps, library_type |-> ResolvedLibraryType(e, b).value,
   build_path |-> handle, install_prefix |-> ResolvedPrefix(e, b)]

\* build(self): consumes the builder i.  create_dir_all may fail with an
\* io error.
BuildAct(i) ==
  /\ call = None
  /\ IsSome(builder[i])
  /\ builder' = [builder EXCEPT ![i] = None]
  /\ UNCHANGED <<env, tool, call, dropped>>
  /\ LET b == builder[i][1]
     IN  IF ~IsSome(b.name)
           THEN /\ build' = [build EXCEPT ![i] = Some(Err("MissingName", <<>>))]
                /\ UNCHANGED tmpVars
         ELSE IF ~IsSome(b.source)
           THEN /\ build' = [build EXCEPT ![i] = Some(Err("MissingSource", <<>>))]
                /\ UNCHANGED tmpVars
         ELSE IF ~ResolvedLibraryType(env, b).ok
           THEN /\ build' = [build EXCEPT ![i] = Some(ResolvedLibraryType(env, b))]
                /\ UNCHANGED tmpVars
         ELSE
           \E h \in {build_hash(b, ResolvedPrefix(env, b),
                                ResolvedLibraryType(env, b).value)} :
             LET path == TemporaryPathOf(env, BuildFolderName(b.name[1], h),
                                         b.build_path)
                 handle == Len(inner) + 1
                 created == Append(inner, NewInner(path, FALSE))
             IN  \/ /\ build' = [build EXCEPT ![i] =
                                   Some(Err("FailedToCreateBuildDirectory", <<>>))]
                    /\ UNCHANGED tmpVars
                 \/ /\ fs' = CreateDirAll(fs, path)
                    /\ inner' = IF ~b.remove_build_dir
                                  THEN ReleaseInner(created, handle)
                                  ELSE created
                    /\ build' = [build EXCEPT ![i] =
                                   Some(Ok(NewBuild(env, b, h, handle)))]
  /\ log' = [log EXCEPT ![i] =
               Append(@, Event("build", 0, build'[i][1].ok,
                               builder[i][1].remove_build_dir))]

-----------------------------------------------------------------------------
(* Errors, results, and the sources' setup.                                 *)

\* BuildStepError{ detail, stdout, stderr }
BuildStepError(detail, stdout, stderr) ==
  [detail |-> detail, stdout |-> stdout, stderr |-> stderr]
\* BuildStepError::new_simple(detail)
new_simple(detail) == BuildStepError(detail, <<>>, <<>>)
\* a BuildError that names the step and loses what the step returned
BuildErrorLosesCause(step, error) == [step |-> step, error |-> new_simple("")]

\* BuildError{ step, error }
BuildError(step, error) == [step |-> step, error |-> error]

\* BuildResult::new()
BuildResultNew ==
  [libraries |-> <<>>, library_paths |-> <<>>, custom_compiler_emits |-> <<>>]
\* BuildResult::add_library(name, kind)
add_library(r, name, kind) ==
  [r EXCEPT !.libraries = Append(@, [name |-> name, kind |-> kind])]
\* a search path recorded without its kind
add_library_path_all(r, path, kind) ==
  [r EXCEPT !.library_paths = Append(@, [path |-> path, kind |-> "All"])]
\* BuildResult::add_library_path(path, kind): no kind means All
add_library_path(r, path, kind) ==
  [r EXCEPT !.library_paths =
     Append(@, [path |-> path, kind |-> IF IsSome(kind) THEN kind[1] ELSE "All"])]
\* BuildResult::add_emit(line)
add_emit(r, line) == [r EXCEPT !.custom_compiler_emits = Append(@, line)]

\* LibraryType::to_string
LibraryTypeToString(t) ==
  IF t = "Shared" THEN <<100, 121, 108, 105, 98>> ELSE <<115, 116, 97, 116, 105, 99>>
\* LinkSearchKind::to_string
LinkSearchKindToString(k) ==
  CASE k = "Dependency" -> <<100, 101, 112, 101, 110, 100, 101, 110, 99, 121>>
    [] k = "Crate" -> <<99, 114, 97, 116, 101>>
    [] k = "Native" -> <<110, 97, 116, 105, 118, 101>>
    [] k = "Framework" -> <<102, 114, 97, 109, 101, 119, 111, 114, 107>>
    [] OTHER -> <<97, 108, 108>>
\* BuildLibrary::to_string: "<kind>=<name>", or the name without a kind
BuildLibraryToString(l) ==
  IF IsSome(l.kind) THEN LibraryTypeToString(l.kind[1]) \o <<61>> \o l.name
  ELSE l.name
\* BuildLibraryPath::to_string: "<kind>=<path>", or the path for All
BuildLibraryPathToString(p) ==
  IF p.kind = "All" THEN p.path
  ELSE LinkSearchKindToString(p.kind) \o <<61>> \o p.path

\* "cargo:rustc-link-search="
CargoLinkSearch == <<99, 97, 114, 103, 111, 58, 114, 117, 115, 116, 99, 45, 108, 105, 110, 107, 45, 115, 101, 97, 114, 99, 104, 61>>
\* "cargo:"
CargoPrefix == <<99, 97, 114, 103, 111, 58>>

\* BuildResult::emit_cargo: the lines it prints, in order
emit_cargo(r) ==
  [k \in 1..Len(r.library_paths) |->
     CargoLinkSearch \o BuildLibraryPathToString(r.library_paths[k])]
  \o [k \in 1..Len(r.libraries) |->
        CargoLinkSearch \o BuildLibraryToString(r.libraries[k])]
  \o [k \in 1..Len(r.custom_compiler_emits) |->
        CargoPrefix \o r.custom_compiler_emits[k]]


\* the part of s after its last '/' (all of s if it has none)
RECURSIVE LastSegmentFrom(_, _)
LastSegmentFrom(s, i) ==
  IF i = 0 THEN s
  ELSE IF s[i] = 47 THEN SubSeq(s, i + 1, Len(s))
  ELSE LastSegmentFrom(s, i - 1)
LastSegment(s) == LastSegmentFrom(s, Len(s))

\* what temporary_directory_name feeds its hasher: the url, and the
\* revision if there is one (the str, not the Option)
GitHashInput(src) ==
  StrHash(src.repository_url)
    \o (IF IsSome(src.revision) THEN StrHash(src.revision[1]) ELSE <<>>)

\* BuildSourceGit::temporary_directory_name: git_<project>_<hash>
temporary_directory_name(src) ==
  <<103, 105, 116, 95>> \o LastSegment(src.repository_url) \o <<95>>
    \o HashStr(SipFinish(GitHashInput(src)))

\* the name of the repository marker, ".git"
DotGit == <<46, 103, 105, 116>>

\* what the environment does to one git setup: is there a git binary, do
\* the directory creations work, how do fetch, clone and reset end, and how
\* does the replacement of a directory that is no repository end
GitOutcomes ==
  [git_ok : BOOLEAN, create_ok : BOOLEAN, fetch : {"ok", "not_a_repo", "fail"},
   recreate : {"ok", "remove_failed", "create_failed"},
   clone_ok : BOOLEAN, reset_ok : BOOLEAN]

\* a reset that always goes to HEAD
ResetRevisionHead(src) == <<72, 69, 65, 68>>

\* self.revision.clone().unwrap_or("HEAD")
ResetRevision(src) ==
  IF IsSome(src.revision) THEN src.revision[1] ELSE <<72, 69, 65, 68>>

\* a setup that keeps its directory handle without releasing it
KeepCheckoutUnreleased(inners, h) == CloneInner(inners, h)

\* folder.release(); self.local_folder = Some(folder.clone())
KeepCheckout(inners, h) == CloneInner(ReleaseInner(inners, h), h)

\* a subprocess of setup: git fetch, git clone <url> or git reset --hard
\* <revision>, and how it ended
GitCommand(cmd, arg, status) == [cmd |-> cmd, arg |-> arg, status |-> status]

\* what setup returns and leaves behind: the Result, the source, the
\* directories, the inners, and the subprocesses it ran
SetupReturn(ok, error, src, dirs, inners, cmds) ==
  [ok |-> ok, error |-> error, source |-> src, fs |-> dirs, inner |-> inners,
   cmds |-> cmds]

\* BuildSourceGit::setup with the directory name dir_name.  target_folder
\* is dropped when setup returns; local_folder keeps a clone of it.
GitSetup(src, dir_name, e, dirs, inners, o) ==
  IF IsSome(src.local_folder)
    THEN SetupReturn(FALSE, new_simple("the source has already been initialized"),
                     src, dirs, inners, <<>>)
  ELSE IF ~o.git_ok
    THEN SetupReturn(FALSE, new_simple("git error"), src, dirs, inners, <<>>)
  ELSE IF ~o.create_ok
    THEN SetupReturn(FALSE, new_simple("failed to create git checkout directory"),
                     src, dirs, inners, <<>>)
  ELSE
    LET path == TemporaryPathOf(e, dir_name, src.checkout_folder)
        h == Len(inners) + 1
        held == KeepCheckout(Append(inners, NewInner(path, FALSE)), h)
        src2 == [src EXCEPT !.local_folder = Some(h)]
        dirs1 == CreateDirAll(dirs, path)
        marker == Join(path, DotGit)
        Return(ok, error, d, cmds) ==
          SetupReturn(ok, error, src2, DropDirs(d, held, h), DropOwner(held, h), cmds)
        Reset(d, cmds) ==
          IF src.skip_revision_checkout THEN Return(TRUE, <<>>, d, cmds)
          ELSE IF o.reset_ok
            THEN Return(TRUE, <<>>, d,
                        Append(cmds, GitCommand("reset", ResetRevision(src), "ok")))
          ELSE Return(FALSE, BuildStepError("git revision checkout failed", <<>>, <<>>),
                      d, Append(cmds, GitCommand("reset", ResetRevision(src), "fail")))
        Clone(d, cmds) ==
          IF o.clone_ok
            THEN Reset(CreateDirAll(d, marker),
                       Append(cmds, GitCommand("clone", src.repository_url, "ok")))
          ELSE Return(FALSE, BuildStepError("git clone failed", <<>>, <<>>),
                      d, Append(cmds, GitCommand("clone", src.repository_url, "fail")))
        Fetch == <<GitCommand("fetch", <<>>, o.fetch)>>
    IN  IF marker \in dirs1
          THEN CASE o.fetch = "ok" -> Reset(dirs1, Fetch)
                 [] o.fetch = "fail" ->
                      Return(FALSE, BuildStepError("git fetch failed", <<>>, <<>>),
                             dirs1, Fetch)
                 [] OTHER ->
                      CASE o.recreate = "ok" ->
                             Clone(CreateDirAll(RemoveDirAll(dirs1, path), path), Fetch)
                        [] o.recreate = "remove_failed" ->
                             Return(FALSE,
                               BuildStepError("failed to remove old temporary checkout directory",
                                              <<>>, <<>>),
                               dirs1, Fetch)
                        [] OTHER ->
                             Return(FALSE,
                               BuildStepError("failed to create new temporary checkout directory",
                                              <<>>, <<>>),
                               RemoveDirAll(dirs1, path), Fetch)
          ELSE Clone(dirs1, <<>>)

\* BuildSourceDirectory::setup and the tests' DummyBuildSource::setup
NoopSetup(src, dirs, inners) == SetupReturn(TRUE, <<>>, src, dirs, inners, <<>>)

-----------------------------------------------------------------------------
(* Subprocesses, and what the MesonBuild step does with their output.  The  *)
(* output of a subprocess is the sequence of its lines.                     *)

\* how a subprocess ends: exit status 0, another exit status, or it could
\* not be started
Statuses == {"ok", "exit_nonzero", "spawn_failed"}

\* an io error that does not say what failed
new_io_without_detail(detail) == BuildStepError(<<>>, <<>>, <<>>)

\* BuildStepError::new_io(detail, err)
new_io(detail) == BuildStepError(detail, <<>>, <<>>)

\* a command runner that looks only at whether the subprocess started
execute_build_command_lenient(status, error_detail, stdout, stderr) ==
  IF status = "spawn_failed" THEN Err("BuildStepError", new_io(error_detail))
  ELSE Ok(<<stdout, stderr>>)

\* a command runner whose error does not hold what the subprocess printed
execute_build_command_no_output(status, error_detail, stdout, stderr) ==
  IF status # "ok" THEN Err("BuildStepError", new_io(error_detail))
  ELSE Ok(<<stdout, stderr>>)

\* execute_build_command(command, error_detail)
execute_build_command(status, error_detail, stdout, stderr) ==
  IF status = "spawn_failed" THEN Err("BuildStepError", new_io(error_detail))
  ELSE IF status # "ok"
    THEN Err("BuildStepError", BuildStepError(error_detail, stdout, stderr))
  ELSE Ok(<<stdout, stderr>>)

\* str::starts_with
StartsWith(s, pat) == Len(s) >= Len(pat) /\ SubSeq(s, 1, Len(pat)) = pat

\* str::find: the first position where pat starts in s, 0 if there is none
RECURSIVE FindFrom(_, _, _)
FindFrom(s, pat, i) ==
  IF i + Len(pat) - 1 > Len(s) THEN 0
  ELSE IF SubSeq(s, i, i + Len(pat) - 1) = pat THEN i
  ELSE FindFrom(s, pat, i + 1)
Find(s, pat) == FindFrom(s, pat, 1)

\* str::split(pat), collected: the pieces of s between the occurrences of
\* pat, from left to right
RECURSIVE Split(_, _)
Split(s, pat) ==
  IF Find(s, pat) = 0 THEN <<s>>
  ELSE <<SubSeq(s, 1, Find(s, pat) - 1)>>
         \o Split(SubSeq(s, Find(s, pat) + Len(pat), Len(s)), pat)

\* "meson wrap promote "
PromoteDiagnostic == <<109, 101, 115, 111, 110, 32, 119, 114, 97, 112, 32, 112, 114, 111, 109, 111, 116, 101, 32>>
\* "Installing "
InstallingPrefix == <<73, 110, 115, 116, 97, 108, 108, 105, 110, 103, 32>>
\* " to "
ToSeparator == <<32, 116, 111, 32>>

\* the first line of stdout with the diagnostic, as an Option
RECURSIVE DiagnosticLineFrom(_, _)
DiagnosticLineFrom(stdout, i) ==
  IF i > Len(stdout) THEN None
  ELSE IF Find(stdout[i], PromoteDiagnostic) # 0 THEN Some(stdout[i])
  ELSE DiagnosticLineFrom(stdout, i + 1)
DiagnosticLine(stdout) == DiagnosticLineFrom(stdout, 1)

\* line.split("meson wrap promote ").nth(1)
PromoteArgument(line) == Split(line, PromoteDiagnostic)[2]

\* the lines of stdout that start with "Installing "
InstallLines(stdout) == SelectSeq(stdout, LAMBDA l : StartsWith(l, InstallingPrefix))

\* one "Installing " line: the key and the value, or the error
ParseInstallLine(full_line, stdout, stderr) ==
  LET elements == Split(SubSeq(full_line, 12, Len(full_line)), ToSeparator)
  IN  IF Len(elements) >= 3
        THEN Err("BuildStepError",
                 BuildStepError(<<"contains more than one to parts", full_line>>,
                                stdout, stderr))
      ELSE IF Len(elements) < 2
        THEN Err("BuildStepError",
                 BuildStepError(<<"misses the key or value", full_line>>,
                                stdout, stderr))
      ELSE Ok([key |-> elements[1], value |-> elements[2]])

\* a map that keeps the value a key was first inserted with
MapInsertKeepFirst(map, key, value) ==
  [k \in DOMAIN map \cup {key} |-> IF k \in DOMAIN map THEN map[k] ELSE value]

\* HashMap::insert(key, value)
MapInsert(map, key, value) ==
  [k \in DOMAIN map \cup {key} |-> IF k = key THEN value ELSE map[k]]

\* the loop over the install lines: installed_elements, or the first error
RECURSIVE ParseInstallFrom(_, _, _, _, _)
ParseInstallFrom(lines, i, map, stdout, stderr) ==
  IF i > Len(lines) THEN Ok(map)
  ELSE LET r == ParseInstallLine(lines[i], stdout, stderr)
       IN  IF ~r.ok THEN r
           ELSE ParseInstallFrom(lines, i + 1,
                                 MapInsert(map, r.value.key, r.value.value),
                                 stdout, stderr)
ParseInstall(stdout, stderr) ==
  ParseInstallFrom(InstallLines(stdout), 1, [k \in {} |-> <<>>], stdout, stderr)

\* the components of the path string s: its pieces between '/', without
\* the empty ones and the "." ones
NormalComps(s) == SelectSeq(Split(s, <<47>>), LAMBDA c : c # <<>> /\ c # <<46>>)

\* PathBuf::from(s)
ParsePath(s) == [root |-> s # <<>> /\ s[1] = 47, comps |-> NormalComps(s)]

\* Path::file_name, as an Option
file_name(s) ==
  LET comps == NormalComps(s)
  IN  IF comps = <<>> \/ comps[Len(comps)] = <<46, 46>> THEN None
      ELSE Some(comps[Len(comps)])

\* the position of the last '.' of s, 0 if it has none
RECURSIVE LastDotFrom(_, _)
LastDotFrom(s, i) ==
  IF i = 0 THEN 0 ELSE IF s[i] = 46 THEN i ELSE LastDotFrom(s, i - 1)

\* Path::extension, as an Option: what follows the last '.' of the file
\* name, unless that '.' is its first byte
extension(s) ==
  IF ~IsSome(file_name(s)) THEN None
  ELSE LET f == file_name(s)[1]
           dot == LastDotFrom(f, Len(f))
       IN  IF dot <= 1 THEN None ELSE Some(SubSeq(f, dot + 1, Len(f)))

\* a test that takes every target for a directory
is_dir_unchecked(dirs, s) == TRUE
\* Path::is_dir
is_dir(dirs, s) == ParsePath(s) \in dirs

ExtA == <<97>>
ExtLib == <<108, 105, 98>>
ExtSo == <<115, 111>>
ExtDll == <<100, 108, 108>>

\* the closure run on one entry of installed_elements
ClassifyEntry(dirs, result, key, value) ==
  IF ~IsSome(extension(key)) THEN result
  ELSE IF ~is_dir(dirs, value) THEN result
  ELSE IF extension(key)[1] \in {ExtA, ExtLib}
    THEN add_library_path(add_library(result, file_name(key)[1], Some("Static")),
                          value, Some("Native"))
  ELSE IF extension(key)[1] \in {ExtSo, ExtDll}
    THEN add_library_path(add_library(result, file_name(key)[1], Some("Shared")),
                          value, Some("Native"))
  ELSE result

\* installed_elements.iter().for_each(..), the map iterated in the order
\* given
RECURSIVE ClassifyFrom(_, _, _, _, _)
ClassifyFrom(dirs, result, map, order, i) ==
  IF i > Len(order) THEN result
  ELSE ClassifyFrom(dirs, ClassifyEntry(dirs, result, order[i], map[order[i]]),
                    map, order, i + 1)

\* the orders in which a HashMap with the keys S may be iterated
RECURSIVE Perms(_)
Perms(S) ==
  IF S = {} THEN {<<>>}
  ELSE UNION {{<<x>> \o q : q \in Perms(S \ {x})} : x \in S}

\* the orders in which installed_elements.iter() may give the pairs of the
\* manifest stdout
InstallOrders(stdout, stderr) ==
  IF ParseInstall(stdout, stderr).ok
    THEN Perms(DOMAIN ParseInstall(stdout, stderr).value)
    ELSE {<<>>}

\* the number of lines of the manifest up to which the parse succeeds
ParsedLines(stdout, stderr) ==
  CHOOSE n \in 0..Len(InstallLines(stdout)) :
    /\ ParseInstallFrom(SubSeq(InstallLines(stdout), 1, n), 1,
                        [k \in {} |-> <<>>], stdout, stderr).ok
    /\ \A m \in n + 1..Len(InstallLines(stdout)) :
         ~ParseInstallFrom(SubSeq(InstallLines(stdout), 1, m), 1,
                           [k \in {} |-> <<>>], stdout, stderr).ok

\* an install block that records each line as soon as it is parsed: after
\* a parse error the result holds the libraries of the lines before it
InstallBlockEager(dirs, result, stdout, stderr, order) ==
  LET parsed == ParseInstall(stdout, stderr)
      before == ParseInstallFrom(SubSeq(InstallLines(stdout), 1,
                                        ParsedLines(stdout, stderr)), 1,
                                 [k \in {} |-> <<>>], stdout, stderr).value
  IN  IF ~parsed.ok
        THEN [ok |-> FALSE, value |-> parsed.value,
              result |-> ClassifyFrom(dirs, result, before,
                                      CHOOSE o \in Perms(DOMAIN before) : TRUE, 1)]
        ELSE [ok |-> TRUE, value |-> <<>>,
              result |-> ClassifyFrom(dirs, result, parsed.value, order, 1)]

\* the install block after a successful meson install: every "Installing "
\* line is parsed first, and only then the pairs are given to the result,
\* in the order order.  result is what the BuildResult holds when the block
\* is left, with Ok or with the parse error.
InstallBlock(dirs, result, stdout, stderr, order) ==
  LET parsed == ParseInstall(stdout, stderr)
  IN  IF ~parsed.ok
        THEN [ok |-> FALSE, value |-> parsed.value, result |-> result]
        ELSE [ok |-> TRUE, value |-> <<>>,
              result |-> ClassifyFrom(dirs, result, parsed.value, order, 1)]

-----------------------------------------------------------------------------
(* Build::execute, step by step.  call is [i, pc, idx, result, files, k,    *)
(* attempts]: the Build, where the call is, the step it is at, the          *)
(* BuildResult so far, the files still to promote and the next of them,     *)
(* and the setup attempts of the step so far.  The program has one thread,  *)
(* so nothing else happens while a call is in progress.                     *)

\* how often execute is called on one Build
MaxExecutes == 1
\* how often one step execution attempts meson setup
MaxSetupAttempts == 2

\* "source setup"
SourceSetupName == <<115, 111, 117, 114, 99, 101, 32, 115, 101, 116, 117, 112>>

Alive(i) == IsSome(build[i]) /\ build[i][1].ok /\ i \notin dropped
Executes(i) == Len(SelectSeq(log[i], LAMBDA e : e.ev = "execute"))

\* what was appended to the result before to give the result after
Added(before, after) ==
  [libraries |-> SubSeq(after.libraries, Len(before.libraries) + 1,
                        Len(after.libraries)),
   library_paths |-> SubSeq(after.library_paths, Len(before.library_paths) + 1,
                            Len(after.library_paths))]

\* execute returns value
EndCall(i, events, value) ==
  /\ call' = None
  /\ log' = [log EXCEPT ![i] = @ \o events \o <<Event("return", 0, value.ok, value)>>]

\* a loop that hands the next step a new BuildResult
StepDoneFreshResult(c, events, res) ==
  LET done == events \o <<Event("step_end", c.idx, TRUE, Added(c.result, res))>>
  IN  IF c.idx = Len(build[c.i][1].value.steps)
        THEN EndCall(c.i, done, Ok(res))
        ELSE /\ call' = Some([c EXCEPT !.pc = "step", !.idx = @ + 1,
                                       !.result = BuildResultNew, !.files = <<>>,
                                       !.k = 0, !.attempts = 0])
             /\ log' = [log EXCEPT ![c.i] = @ \o done]

\* the step c.idx returned Ok(()): the loop goes on with the next step and
\* the same BuildResult, or execute returns Ok(result)
StepDone(c, events, res) ==
  LET done == events \o <<Event("step_end", c.idx, TRUE, Added(c.result, res))>>
  IN  IF c.idx = Len(build[c.i][1].value.steps)
        THEN EndCall(c.i, done, Ok(res))
        ELSE /\ call' = Some([c EXCEPT !.pc = "step", !.idx = @ + 1,
                                       !.result = res, !.files = <<>>,
                                       !.k = 0, !.attempts = 0])
             /\ log' = [log EXCEPT ![c.i] = @ \o done]

\* the entry of log for a step that returned Err(error): result is what
\* the BuildResult that the step was given holds at that moment
StepError(idx, error, res) ==
  [ev |-> "step_end", idx |-> idx, ok |-> FALSE, info |-> error, result |-> res]

\* a loop that goes on after a step returned Err
StepFailedGoesOn(c, events, error, res) ==
  StepDone(c, events \o <<StepError(c.idx, error, res)>>, c.result)

\* the step c.idx returned Err(error) and left res in the BuildResult:
\* execute returns the BuildError with the name of that step, and the
\* BuildResult is dropped
StepFailed(c, events, error, res) ==
  EndCall(c.i, events \o <<StepError(c.idx, error, res)>>,
          Err("BuildError",
              BuildError(StepName(build[c.i][1].value.steps[c.idx]), error)))

\* what the environment may do to the setup of the source src
SetupOutcomes(src) ==
  IF src.kind = "git" THEN GitOutcomes
  ELSE {[git_ok |-> TRUE, create_ok |-> TRUE, fetch |-> "ok",
         recreate |-> "ok", clone_ok |-> TRUE, reset_ok |-> TRUE]}

\* source.setup()
source_setup(src, dir_name, e, dirs, inners, o) ==
  IF src.kind = "git" THEN GitSetup(src, dir_name, e, dirs, inners, o)
  ELSE NoopSetup(src, dirs, inners)

\* GIT_STATUS is a lazy static: check_git() runs when setup reads it for the
\* first time, and what it found stays for the life of the process.  The
\* outcome o agrees with what was found, and the tool t remembers it.
GitStatusAllows(t, src, o) ==
  src.kind = "git" /\ t.git_status # "unchecked" =>
    o.git_ok = (t.git_status = "ok")
GitStatusRead(t, src, o) ==
  IF src.kind = "git" /\ ~IsSome(src.local_folder)
    THEN [t EXCEPT !.git_status = IF o.git_ok THEN "ok" ELSE "not_found"]
    ELSE t

\* execute(&mut self) up to its loop: source.setup(), and the return if
\* that failed or if there is no step; for a Build on which execute was
\* called less than n times
ExecuteUpTo(i, n) ==
  /\ call = None
  /\ Alive(i)
  /\ Executes(i) < n
  /\ UNCHANGED <<env, builder, dropped>>
  /\ LET b == build[i][1].value
     IN  \E o \in {x \in SetupOutcomes(b.source) : GitStatusAllows(tool, b.source, x)},
            dir_name \in {IF b.source.kind = "git"
                            THEN temporary_directory_name(b.source) ELSE <<>>} :
           LET r == source_setup(b.source, dir_name, env, fs, inner, o)
               events == <<Event("execute", 0, TRUE, <<>>),
                           Event("source_setup", 0, r.ok,
                                 [error |-> r.error, cmds |-> r.cmds])>>
           IN  /\ fs' = r.fs
               /\ inner' = r.inner
               /\ tool' = GitStatusRead(tool, b.source, o)
               /\ build' = [build EXCEPT ![i] = Some(Ok([b EXCEPT !.source = r.source]))]
               /\ IF ~r.ok
                    THEN EndCall(i, events,
                                 Err("BuildError", BuildError(SourceSetupName, r.error)))
                  ELSE IF b.steps = <<>> THEN EndCall(i, events, Ok(BuildResultNew))
                  ELSE /\ call' = Some([i |-> i, pc |-> "step", idx |-> 1,
                                        result |-> BuildResultNew, files |-> <<>>,
                                        k |-> 0, attempts |-> 0])
                       /\ log' = [log EXCEPT ![i] = @ \o events]

Execute(i) == ExecuteUpTo(i, MaxExecutes)

\* the step the call is at
CallStep == build[call[1].i][1].value.steps[call[1].idx]
AtStep(kind) == IsSome(call) /\ call[1].pc = "step" /\ CallStep.kind = kind

\* DummyBuildStep::execute
StepDummy ==
  /\ AtStep("dummy")
  /\ StepDone(call[1], <<Event("step_start", call[1].idx, TRUE, CallStep)>>,
              call[1].result)
  /\ UNCHANGED <<env, tool, builder, build, dropped, tmpVars>>

\* MesonBuild::execute, the setup loop: one attempt of meson setup and
\* what follows its failure.  The first attempt of a step reads the
\* source's local_directory(), which DummyBuildSource does not implement.
MesonSetup ==
  /\ IsSome(call)
  /\ AtStep("meson") \/ call[1].pc = "meson_setup"
  /\ call[1].attempts < MaxSetupAttempts
  /\ UNCHANGED <<env, tool, builder, build, dropped, tmpVars>>
  /\ LET c == call[1]
         start == IF c.pc = "step"
                    THEN <<Event("step_start", c.idx, TRUE, CallStep)>> ELSE <<>>
     IN  IF build[c.i][1].value.source.kind = "dummy"
           THEN /\ call' = None
                /\ log' = [log EXCEPT ![c.i] =
                             @ \o start \o <<Event("panic", c.idx, FALSE, <<>>)>>]
         ELSE
           \E st \in tool.statuses :
           \E out \in (IF st = "exit_nonzero" THEN tool.setup_stdouts ELSE {<<>>}) :
             LET r == execute_build_command(st, "failed to setup build", out, <<>>)
                 events == start \o <<Event("cmd", c.idx, st = "ok", <<"setup", out>>)>>
             IN  IF r.ok
                   THEN /\ call' = Some([c EXCEPT !.pc = "meson_compile",
                                                  !.attempts = @ + 1])
                        /\ log' = [log EXCEPT ![c.i] = @ \o events]
                 ELSE IF IsSome(DiagnosticLine(r.value.stdout))
                         /\ CallStep.callback_promote
                   THEN \E files \in tool.promote_files :
                          LET called == events \o
                                <<Event("callback", c.idx, TRUE,
                                        [argument |-> PromoteArgument(
                                            DiagnosticLine(r.value.stdout)[1]),
                                         files |-> files])>>
                          IN  IF files # <<>>
                                THEN /\ call' = Some([c EXCEPT
                                                        !.pc = "meson_promote",
                                                        !.files = files, !.k = 1,
                                                        !.attempts = @ + 1])
                                     /\ log' = [log EXCEPT ![c.i] = @ \o called]
                                ELSE StepFailed(c, called, r.value, c.result)
                 ELSE StepFailed(c, events, r.value, c.result)

\* a promote loop that is left after its first file
NextPromoteFirstOnly(c) == [c EXCEPT !.pc = "meson_setup"]

\* for file in promote.iter(): after a promotion that succeeded the loop
\* takes the next file, and after the last one setup is executed again
NextPromote(c) ==
  IF c.k = Len(c.files) THEN [c EXCEPT !.pc = "meson_setup"]
  ELSE [c EXCEPT !.k = @ + 1]

\* the promote loop: meson wrap promote for the next file
MesonPromote ==
  /\ IsSome(call)
  /\ call[1].pc = "meson_promote"
  /\ UNCHANGED <<env, tool, builder, build, dropped, tmpVars>>
  /\ LET c == call[1]
     IN  \E st \in tool.statuses :
           LET r == execute_build_command(
                      st, <<"failed to execute promote command for", c.files[c.k]>>,
                      <<>>, <<>>)
               events == <<Event("cmd", c.idx, st = "ok", <<"promote", c.files[c.k]>>)>>
           IN  IF ~r.ok THEN StepFailed(c, events, r.value, c.result)
               ELSE /\ call' = Some(NextPromote(c))
                    /\ log' = [log EXCEPT ![c.i] = @ \o events]

\* meson compile
MesonCompile ==
  /\ IsSome(call)
  /\ call[1].pc = "meson_compile"
  /\ UNCHANGED <<env, tool, builder, build, dropped, tmpVars>>
  /\ LET c == call[1]
     IN  \E st \in tool.statuses :
           LET r == execute_build_command(st, "failed to execute build", <<>>, <<>>)
               events == <<Event("cmd", c.idx, st = "ok", <<"compile">>)>>
           IN  IF ~r.ok THEN StepFailed(c, events, r.value, c.result)
               ELSE /\ call' = Some([c EXCEPT !.pc = "meson_install"])
                    /\ log' = [log EXCEPT ![c.i] = @ \o events]

\* meson install, the parse of its output and the libraries it names
MesonInstall ==
  /\ IsSome(call)
  /\ call[1].pc = "meson_install"
  /\ UNCHANGED <<env, tool, builder, build, dropped, tmpVars>>
  /\ LET c == call[1]
     IN  \E st \in tool.statuses :
         \E out \in (IF st = "spawn_failed" THEN {<<>>} ELSE tool.install_stdouts) :
           LET r == execute_build_command(st, "failed to install build", out, <<>>)
               events == <<Event("cmd", c.idx, st = "ok", <<"install", out>>)>>
           IN  IF ~r.ok THEN StepFailed(c, events, r.value, c.result)
               ELSE \E order \in InstallOrders(out, <<>>) :
                      LET b == InstallBlock(fs, c.result, out, <<>>, order)
                      IN  IF b.ok THEN StepDone(c, events, b.result)
                          ELSE StepFailed(c, events, b.value, b.result)

\* the Build i is destroyed: its fields are dropped in the order of their
\* declaration, the source (with the local_folder of a git source) before
\* build_path
DropBuild(i) ==
  /\ call = None
  /\ Alive(i)
  /\ dropped' = dropped \cup {i}
  /\ UNCHANGED <<env, tool, builder, build, call, log>>
  /\ LET b == build[i][1].value
         held == b.source.kind = "git" /\ IsSome(b.source.local_folder)
         dirs1 == IF held THEN DropDirs(fs, inner, b.source.local_folder[1]) ELSE fs
         inners1 == IF held THEN DropOwner(inner, b.source.local_folder[1]) ELSE inner
     IN  /\ fs' = DropDirs(dirs1, inners1, b.build_path)
         /\ inner' = DropOwner(inners1, b.build_path)

-----------------------------------------------------------------------------
(* SpecHash: two builders that were configured from bounded sets, and       *)
(* build() on each.                                                         *)

\* the number of meson_option calls on one MesonBuildBuilder
MaxOptions == 2

\* build names: "n", "s"
Names == {<<110>>, <<115>>}
\* option names "t", "g" and option values "0", "1"
OptionKeys == {<<116>>, <<103>>}
OptionValues == {<<48>>, <<49>>}

\* BuildSourceGit::builder("u").build()
GitSource ==
  [kind |-> "git", repository_url |-> <<117>>, revision |-> None,
   skip_revision_checkout |-> FALSE, checkout_folder |-> None,
   local_folder |-> None]
\* BuildSourceDirectory{ path: /src }
DirectorySource ==
  [kind |-> "directory", path |-> [root |-> TRUE, comps |-> << <<115, 114, 99>> >>]]

\* a source with the install prefix given to the builder
Bases ==
  { [source |-> GitSource, install_prefix |-> None],
    [source |-> DirectorySource,
     install_prefix |-> Some([root |-> TRUE, comps |-> << <<111>> >>])] }

RECURSIVE MesonBuilds(_)
\* the MesonBuild steps that at most n calls of meson_option build
MesonBuilds(n) ==
  IF n = 0 THEN {MesonBuildBuilderNew}
  ELSE LET prev == MesonBuilds(n - 1)
       IN  prev \cup
           UNION { { meson_option(m, k, v, pos) :
                       k \in OptionKeys, v \in OptionValues,
                       pos \in 1..(Len(m.order) + 1) } : m \in prev }

\* the step lists: no step, or one MesonBuild
StepLists == {<<>>} \cup {<<m>> : m \in MesonBuilds(MaxOptions)}

\* the two builders: the same name and base; builder 1 keeps the default
\* library type and removes its directory, builder 2 may name a library
\* type and keeps its directory
HashInit ==
  /\ env = [v \in {} |-> <<>>]
  /\ fs = {TempDir}
  /\ inner = <<>>
  /\ build = <<None, None>>
  /\ Idle
  /\ tool = NoTool
  /\ \E n \in Names, base \in Bases, s1 \in StepLists, s2 \in StepLists,
        lt \in {None, Some("Shared"), Some("Static")} :
       builder =
         << Some([BuildBuilderNew EXCEPT
                    !.name = Some(n), !.source = Some(base.source),
                    !.install_prefix = base.install_prefix, !.steps = s1]),
            Some([BuildBuilderNew EXCEPT
                    !.name = Some(n), !.source = Some(base.source),
                    !.install_prefix = base.install_prefix, !.steps = s2,
                    !.library_type = lt, !.remove_build_dir = FALSE]) >>

HashNext == \E i \in 1..2 : BuildAct(i)

SpecHash == HashInit /\ [][HashNext]_vars

-----------------------------------------------------------------------------
(* SpecTmp: TemporaryPath handles made, cloned, released and dropped.       *)

\* how many TemporaryPathInner are made
MaxInners == 2
\* how many owners one inner has at a time
MaxOwners == 2

\* folder names "f", "g"
Folders == {<<102>>, <<103>>}
\* base directories: none (the temporary directory), or /tmp/f
BaseDirs == {None, Some(Join(TempDir, <<102>>))}

\* create_temporary_path(folder_name, base_dir); create_dir_all may fail
\* with an io error, and then there is no handle
TmpCreate(folder_name, base_dir) ==
  /\ Len(inner) < MaxInners
  /\ UNCHANGED buildVars
  /\ LET path == TemporaryPathOf(env, folder_name, base_dir)
     IN  \/ UNCHANGED tmpVars
         \/ /\ fs' = CreateDirAll(fs, path)
            /\ inner' = Append(inner, NewInner(path, FALSE))

\* TemporaryPath::from_persistent(path)
TmpFromPersistent(path) ==
  /\ Len(inner) < MaxInners
  /\ inner' = Append(inner, NewInner(path, TRUE))
  /\ UNCHANGED <<fs, buildVars>>

\* clone() of an owner of inner h
TmpClone(h) ==
  /\ inner[h].strong > 0
  /\ inner[h].strong < MaxOwners
  /\ inner' = CloneInner(inner, h)
  /\ UNCHANGED <<fs, buildVars>>

\* release() through an owner of inner h
TmpRelease(h) ==
  /\ inner[h].strong > 0
  /\ inner' = ReleaseInner(inner, h)
  /\ UNCHANGED <<fs, buildVars>>

\* drop of an owner of inner h
TmpDrop(h) ==
  /\ inner[h].strong > 0
  /\ fs' = DropDirs(fs, inner, h)
  /\ inner' = DropOwner(inner, h)
  /\ UNCHANGED buildVars

TmpInit ==
  /\ env = [v \in {} |-> <<>>]
  /\ fs = {TempDir}
  /\ inner = <<>>
  /\ builder = <<None, None>>
  /\ build = <<None, None>>
  /\ Idle
  /\ tool = NoTool

TmpNext ==
  \/ \E f \in Folders, base \in BaseDirs : TmpCreate(f, base)
  \/ \E f \in Folders : TmpFromPersistent(Join(TempDir, f))
  \/ \E h \in 1..Len(inner) : TmpClone(h)
  \/ \E h \in 1..Len(inner) : TmpRelease(h)
  \/ \E h \in 1..Len(inner) : TmpDrop(h)

SpecTmp == TmpInit /\ [][TmpNext]_vars

-----------------------------------------------------------------------------
(* Spec: one BuildBuilder is configured and built, the Build is executed    *)
(* and destroyed.                                                           *)

\* how many steps are added to a builder
MaxSteps == 2

\* BuildBuilder::name
SetName(i, n) ==
  /\ call = None /\ IsSome(builder[i])
  /\ builder' = [builder EXCEPT ![i] = Some([@[1] EXCEPT !.name = Some(n)])]
  /\ UNCHANGED <<env, tool, build, execVars, tmpVars>>

\* BuildBuilder::source
SetSource(i, src) ==
  /\ call = None /\ IsSome(builder[i])
  /\ builder' = [builder EXCEPT ![i] = Some([@[1] EXCEPT !.source = Some(src)])]
  /\ UNCHANGED <<env, tool, build, execVars, tmpVars>>

\* BuildBuilder::install_prefix
SetInstallPrefix(i, path) ==
  /\ call = None /\ IsSome(builder[i])
  /\ builder' = [builder EXCEPT ![i] = Some([@[1] EXCEPT !.install_prefix = Some(path)])]
  /\ UNCHANGED <<env, tool, build, execVars, tmpVars>>

\* BuildBuilder::remove_build_dir
SetRemoveBuildDir(i, enabled) ==
  /\ call = None /\ IsSome(builder[i])
  /\ builder' = [builder EXCEPT ![i] = Some([@[1] EXCEPT !.remove_build_dir = enabled])]
  /\ UNCHANGED <<env, tool, build, execVars, tmpVars>>

\* BuildBuilder::add_step
AddStep(i, step) ==
  /\ call = None /\ IsSome(builder[i])
  /\ Len(builder[i][1].steps) < MaxSteps
  /\ builder' = [builder EXCEPT ![i] = Some([@[1] EXCEPT !.steps = Append(@, step)])]
  /\ log' = [log EXCEPT ![i] = Append(@, Event("add_step", 0, TRUE, step))]
  /\ UNCHANGED <<env, tool, build, call, dropped, tmpVars>>

\* the tests' DummyBuildSource
DummyBuildSource == [kind |-> "dummy"]
\* the directory /o
PrefixDir == [root |-> TRUE, comps |-> << <<111>> >>]
\* a failing setup prints "meson wrap promote w"
DiagnosticW == <<109, 101, 115, 111, 110, 32, 119, 114, 97, 112, 32, 112, 114, 111, 109, 111, 116, 101, 32, 119>>
\* install prints "Installing x.a to /o"
InstallXA == <<73, 110, 115, 116, 97, 108, 108, 105, 110, 103, 32, 120, 46, 97, 32, 116, 111, 32, 47, 111>>

\* a meson binary whose subprocesses end with status 0 or another status
ExecTool ==
  [statuses |-> {"ok", "exit_nonzero"}, setup_stdouts |-> {<<DiagnosticW>>},
   promote_files |-> {<<<<119>>>>}, install_stdouts |-> {<<InstallXA>>},
   git_status |-> "unchecked"]

ExecSources == {DummyBuildSource, DirectorySource, GitSource}
ExecSteps == {DummyBuildStep, promote_callback(MesonBuildBuilderNew)}

Init ==
  /\ env = [v \in {} |-> <<>>]
  /\ tool = ExecTool
  /\ fs = {TempDir, PrefixDir}
  /\ inner = <<>>
  /\ builder = <<Some(BuildBuilderNew), None>>
  /\ build = <<None, None>>
  /\ Idle

Next ==
  \/ SetName(1, <<110>>)
  \/ \E src \in ExecSources : SetSource(1, src)
  \/ SetInstallPrefix(1, PrefixDir)
  \/ \E enabled \in BOOLEAN : SetRemoveBuildDir(1, enabled)
  \/ \E step \in ExecSteps : AddStep(1, step)
  \/ BuildAct(1)
  \/ Execute(1)
  \/ StepDummy
  \/ MesonSetup
  \/ MesonPromote
  \/ MesonCompile
  \/ MesonInstall
  \/ DropBuild(1)

Spec == Init /\ [][Next]_vars

-----------------------------------------------------------------------------
(* SpecMeson: a Build with one MesonBuild step, with or without a promote   *)
(* callback, on a machine whose meson can fail in every phase, or on one    *)
(* whose meson succeeds and installs one of many manifests.                 *)

\* a line without the diagnostic, "ERROR"
LineError == <<69, 82, 82, 79, 82>>
\* "run meson wrap promote v now"
DiagnosticV == <<114, 117, 110, 32, 109, 101, 115, 111, 110, 32, 119, 114, 97, 112, 32, 112, 114, 111, 109, 111, 116, 101, 32, 118, 32, 110, 111, 119>>
\* lines of meson install
InstallYSo == <<73, 110, 115, 116, 97, 108, 108, 105, 110, 103, 32, 121, 46, 115, 111, 32, 116, 111, 32, 47, 111>>
InstallXAToP == <<73, 110, 115, 116, 97, 108, 108, 105, 110, 103, 32, 120, 46, 97, 32, 116, 111, 32, 47, 112>>
InstallHeader == <<73, 110, 115, 116, 97, 108, 108, 105, 110, 103, 32, 104, 46, 104, 32, 116, 111, 32, 47, 111>>
InstallTwoTo == <<73, 110, 115, 116, 97, 108, 108, 105, 110, 103, 32, 120, 46, 97, 32, 116, 111, 32, 47, 111, 32, 116, 111, 32, 47, 112>>
InstallNoTarget == <<73, 110, 115, 116, 97, 108, 108, 105, 110, 103, 32, 120, 46, 97>>
\* "Installing  to /o" and "Installing x.a to ": a side is empty
InstallNoSource == <<73, 110, 115, 116, 97, 108, 108, 105, 110, 103, 32, 32, 116, 111, 32, 47, 111>>
InstallEmptyTarget == <<73, 110, 115, 116, 97, 108, 108, 105, 110, 103, 32, 120, 46, 97, 32, 116, 111, 32>>
\* "Installing x.a to /q"
InstallXAToQ == <<73, 110, 115, 116, 97, 108, 108, 105, 110, 103, 32, 120, 46, 97, 32, 116, 111, 32, 47, 113>>
\* "Installing /x/libfoo.a to /out/lib"
InstallLibfoo == <<73, 110, 115, 116, 97, 108, 108, 105, 110, 103, 32, 47, 120, 47, 108, 105, 98, 102, 111, 111, 46, 97, 32, 116, 111, 32, 47, 111, 117, 116, 47, 108, 105, 98>>
\* "Installing z.dll to /o", "Installing w.lib to /q", "Installing bin to /o"
InstallZDll == <<73, 110, 115, 116, 97, 108, 108, 105, 110, 103, 32, 122, 46, 100, 108, 108, 32, 116, 111, 32, 47, 111>>
InstallWLib == <<73, 110, 115, 116, 97, 108, 108, 105, 110, 103, 32, 119, 46, 108, 105, 98, 32, 116, 111, 32, 47, 113>>
InstallBin == <<73, 110, 115, 116, 97, 108, 108, 105, 110, 103, 32, 98, 105, 110, 32, 116, 111, 32, 47, 111>>
\* the directories /q and /out/lib
DirQ == [root |-> TRUE, comps |-> << <<113>> >>]
DirOutLib == [root |-> TRUE, comps |-> << <<111, 117, 116>>, <<108, 105, 98>> >>]
LineCompiling == <<67, 111, 109, 112, 105, 108, 105, 110, 103, 32, 120>>

\* /o, /q and /out/lib are directories, /p is not
MesonTool ==
  [statuses |-> Statuses,
   git_status |-> "unchecked",
   setup_stdouts |-> {<<LineError>>, <<DiagnosticW>>, <<LineError, DiagnosticV>>},
   promote_files |-> {<<>>, <<<<119>>>>, <<<<119>>, <<118>>>>},
   install_stdouts |->
     { <<>>,
       <<LineCompiling, InstallXA>>,
       <<InstallXA, InstallYSo>>,
       <<InstallXAToP, InstallXA>>,
       <<InstallHeader, InstallXAToP>>,
       <<InstallTwoTo>>,
       <<InstallYSo, InstallNoTarget>> }]

\* a meson whose subprocesses all exit with 0 and whose install prints
\* one of these manifests or one of those of MesonTool
ManifestTool ==
  [statuses |-> {"ok"},
   git_status |-> "unchecked",
   setup_stdouts |-> {<<>>},
   promote_files |-> {<<>>},
   install_stdouts |->
     MesonTool.install_stdouts \cup
     { <<InstallNoSource>>,
       <<InstallYSo, InstallEmptyTarget>>,
       <<InstallXAToP, InstallYSo>>,
       <<InstallXA, InstallXAToQ>>,
       <<InstallXAToQ, InstallXA>>,
       <<InstallLibfoo, InstallZDll, InstallBin>>,
       <<InstallWLib, InstallHeader>> }]

MesonInit ==
  /\ env = [v \in {} |-> <<>>]
  /\ tool \in {MesonTool, ManifestTool}
  /\ fs = {TempDir, PrefixDir, DirQ, DirOutLib}
  /\ inner = <<>>
  /\ build = <<None, None>>
  /\ Idle
  /\ \E step \in {MesonBuildBuilderNew, promote_callback(MesonBuildBuilderNew)} :
       builder = << Some([BuildBuilderNew EXCEPT
                            !.name = Some(<<110>>),
                            !.source = Some(DirectorySource),
                            !.install_prefix = Some(PrefixDir),
                            !.steps = <<step>>]),
                    None >>

\* execute is called once on the Build: the claims under SpecMeson are
\* about one execution of the step
MesonNext ==
  \/ BuildAct(1)
  \/ ExecuteUpTo(1, 1)
  \/ MesonSetup
  \/ MesonPromote
  \/ MesonCompile
  \/ MesonInstall
  \/ DropBuild(1)

SpecMeson == MesonInit /\ [][MesonNext]_vars

-----------------------------------------------------------------------------
(* The build hash: claims C1 to C3, under SpecHash.                         *)

BuiltOk(i) == IsSome(build[i]) /\ build[i][1].ok
TheBuild(i) == build[i][1].value
\* the name of the working directory of build i
WorkDirName(i) ==
  LET p == inner[TheBuild(i).build_path].path IN p.comps[Len(p.comps)]

\* name and hash contribution of every step, in order
StepContributions(steps) ==
  [k \in 1..Len(steps) |-> <<StepName(steps[k]), StepHash(steps[k])>>]

SameBase(x, y) ==
  /\ x.name = y.name
  /\ SourceHash(x.source) = SourceHash(y.source)
  /\ x.install_prefix = y.install_prefix
  /\ x.library_type = y.library_type

\* the option pairs of a step, whatever the order they are visited in
OptionPairs(step) == IF step.kind = "meson" THEN step.meson_options ELSE <<>>

SameOptionPairs(s, t) ==
  /\ Len(s) = Len(t)
  /\ \A k \in 1..Len(s) :
       s[k].kind = t[k].kind /\ OptionPairs(s[k]) = OptionPairs(t[k])

\* s and t are the same steps but for the value of one option of one step
DifferInOneOptionValue(s, t) ==
  /\ Len(s) = Len(t)
  /\ \E k \in 1..Len(s) :
       /\ s[k].kind = "meson" /\ t[k].kind = "meson"
       /\ DOMAIN s[k].meson_options = DOMAIN t[k].meson_options
       /\ Cardinality({o \in DOMAIN s[k].meson_options :
                         s[k].meson_options[o] # t[k].meson_options[o]}) = 1
       /\ \A j \in (1..Len(s)) \ {k} :
            s[j].kind = t[j].kind /\ OptionPairs(s[j]) = OptionPairs(t[j])

C2_OrderIrrelevant ==
  ( /\ BuiltOk(1) /\ BuiltOk(2)
    /\ SameBase(TheBuild(1), TheBuild(2))
    /\ SameOptionPairs(TheBuild(1).steps, TheBuild(2).steps) )
  => TheBuild(1).build_hash = TheBuild(2).build_hash

\* C3: two builds that are identical but for the value of one MesonBuild
\* option have different build hashes and different working-directory
\* names.
C3_HashSensitivity ==
  ( /\ BuiltOk(1) /\ BuiltOk(2)
    /\ SameBase(TheBuild(1), TheBuild(2))
    /\ DifferInOneOptionValue(TheBuild(1).steps, TheBuild(2).steps) )
  => /\ TheBuild(1).build_hash # TheBuild(2).build_hash
     /\ WorkDirName(1) # WorkDirName(2)

\* two builds of two options each that differ in one value, visited in
\* different orders
C3_Witness ==
  /\ BuiltOk(1) /\ BuiltOk(2)
  /\ SameBase(TheBuild(1), TheBuild(2))
  /\ DifferInOneOptionValue(TheBuild(1).steps, TheBuild(2).steps)
  /\ Len(TheBuild(1).steps[1].order) = 2
  /\ TheBuild(1).steps[1].order # TheBuild(2).steps[1].order
  /\ WorkDirName(1) # WorkDirName(2)

-----------------------------------------------------------------------------
(* TemporaryPath: claims C4 and C5, under SpecTmp.                          *)

Handles == 1..Len(inner)
\* the step drops the last owner of inner h
LastDrop(h) == inner[h].strong = 1 /\ inner'[h].strong = 0
\* nothing at or below the path p exists after the step
GoneAfter(p) == \A q \in fs' : ~IsPrefix(p, q)

C5_ReleasedMonotone ==
  [][ /\ \A h \in 1..Len(inner') :
           inner'[h].release_called => inner'[h].released
      /\ \A h \in Handles :
           /\ inner[h].released => inner'[h].released
           /\ (inner[h].released /\ inner'[h].strong < inner[h].strong)
                => fs' = fs
           /\ (inner[h].released /\ inner'[h] # inner[h]
                 /\ inner'[h].strong = inner[h].strong)
                => /\ fs' = fs
                   /\ inner'[h] = [inner[h] EXCEPT !.release_called = TRUE]
    ]_vars

\* an inner that was released while it had two owners, and then lost both,
\* with its directory in place
C5_Witness ==
  \E h \in Handles :
    /\ inner[h].release_called /\ inner[h].released
    /\ inner[h].strong = 0
    /\ inner[h].path \in fs

-----------------------------------------------------------------------------
(* Build::execute and the destruction of a Build: claims C6 to C9, under    *)
(* Spec.                                                                    *)

Builds == 1..2
\* the entries of log[i] that record ev
EventsOf(i, ev) == SelectSeq(log[i], LAMBDA e : e.ev = ev)
\* was the Build i made by a builder with remove_build_dir = true
RemovesBuildDir(i) == EventsOf(i, "build")[1].info
\* the working directory of the Build i
WorkDir(i) == inner[build[i][1].value.build_path].path
\* the steps in the order in which add_step was called
StepsAdded(i) == [k \in 1..Len(EventsOf(i, "add_step")) |-> EventsOf(i, "add_step")[k].info]

\* the positions of log[i] where a call of execute starts, and the last
\* position of the call that starts at k
CallStarts(i) == {k \in 1..Len(log[i]) : log[i][k].ev = "execute"}
CallEnd(i, k) ==
  IF \E j \in CallStarts(i) : j > k
    THEN (CHOOSE j \in CallStarts(i) :
            j > k /\ \A j2 \in CallStarts(i) : j2 > k => j <= j2) - 1
    ELSE Len(log[i])
\* what one call of execute did, from its start at k
CallLog(i, k) == SubSeq(log[i], k, CallEnd(i, k))
CallLogsOf(i) == {CallLog(i, k) : k \in CallStarts(i)}
\* the positions of the call log c that record ev
At(c, ev) == {p \in 1..Len(c) : c[p].ev = ev}
\* the call log c ends with the return of execute
Returned(c) == c[Len(c)].ev = "return"

C7_SourceSetupFailure ==
  \A i \in Builds : \A c \in CallLogsOf(i) :
    /\ Len(c) >= 2 /\ c[2].ev = "source_setup"
    /\ ~c[2].ok =>
         /\ Len(c) = 3
         /\ c[3].ev = "return" /\ ~c[3].ok
         /\ c[3].info.error = "BuildError"
         /\ c[3].info.value.step = <<115, 111, 117, 114, 99, 101, 32, 115, 101, 116, 117, 112>>
         /\ c[3].info.value.error = c[2].info.error

\* execute was called and the setup of the source failed
C7_Witness ==
  /\ call = None
  /\ \E c \in CallLogsOf(1) : ~c[2].ok /\ Returned(c)

\* C8: in a call of execute the j-th step that starts is the j-th step that
\* was added; a step other than the first starts only after the step
\* before it returned Ok in this call; and when a step returns Err the call
\* ends there, by returning Err(BuildError) with the name of that step and
\* its error.
C8_StepsInOrder ==
  \A i \in Builds : \A c \in CallLogsOf(i) :
    LET starts == SelectSeq(c, LAMBDA e : e.ev = "step_start")
    IN  /\ \A j \in 1..Len(starts) :
             starts[j].idx = j /\ starts[j].info = StepsAdded(i)[j]
        /\ \A p \in At(c, "step_start") :
             c[p].idx > 1 =>
               \E q \in At(c, "step_end") :
                 q < p /\ c[q].idx = c[p].idx - 1 /\ c[q].ok
        /\ \A p \in At(c, "step_end") :
             ~c[p].ok =>
               /\ Len(c) = p + 1
               /\ c[p + 1].ev = "return" /\ ~c[p + 1].ok
               /\ c[p + 1].info.value.step = StepName(StepsAdded(i)[c[p].idx])
               /\ c[p + 1].info.value.error = c[p].info

\* a call in which the first step returned Ok and the second, a meson
\* step, returned Err
C8_Witness ==
  \E c \in CallLogsOf(1) :
    /\ \E p \in At(c, "step_end") : c[p].idx = 1 /\ c[p].ok
    /\ \E p \in At(c, "step_end") :
         c[p].idx = 2 /\ ~c[p].ok /\ StepsAdded(1)[2].kind = "meson"
    /\ Returned(c)

\* what the steps of the call log c appended to the libraries and to the
\* library paths, in the order in which the steps ended
RECURSIVE AddedBy(_, _, _)
AddedBy(c, p, field) ==
  IF p > Len(c) THEN <<>>
  ELSE (IF c[p].ev = "step_end" /\ c[p].ok THEN c[p].info[field] ELSE <<>>)
         \o AddedBy(c, p + 1, field)

\* C9: a call of execute that returned, returned Ok exactly if
\* source.setup() and every step of the Build returned Ok in it; and then
\* every step started exactly once, in the order of the steps, and the
\* BuildResult holds what the steps added, step after step.
C9_ExecuteOkIff ==
  \A i \in Builds : \A c \in CallLogsOf(i) :
    Returned(c) =>
      LET n == Len(build[i][1].value.steps)
          ret == c[Len(c)]
      IN  /\ ret.ok <=>
               /\ c[2].ok
               /\ \A j \in 1..n : \E p \in At(c, "step_end") : c[p].idx = j /\ c[p].ok
          /\ ret.ok =>
               /\ \A j \in 1..n :
                    Cardinality({p \in At(c, "step_start") : c[p].idx = j}) = 1
               /\ ret.info.value.libraries = AddedBy(c, 1, "libraries")
               /\ ret.info.value.library_paths = AddedBy(c, 1, "library_paths")
               /\ ret.info.value.custom_compiler_emits = <<>>

\* execute returned Ok with the libraries of two meson steps
C9_Witness ==
  \E c \in CallLogsOf(1) :
    /\ Returned(c) /\ c[Len(c)].ok
    /\ Len(c[Len(c)].info.value.libraries) = 2
    /\ Len(build[1][1].value.steps) = 2

-----------------------------------------------------------------------------
(* The MesonBuild step: claim C10, under SpecMeson.                         *)

\* the positions of log[i] where a step starts, and the last position of
\* the execution of the step that starts at p
StepStarts(i) == {p \in 1..Len(log[i]) : log[i][p].ev = "step_start"}
StepEnd(i, p) ==
  IF \E q \in p..Len(log[i]) : log[i][q].ev \in {"step_end", "panic"}
    THEN CHOOSE q \in p..Len(log[i]) :
           /\ log[i][q].ev \in {"step_end", "panic"}
           /\ \A q2 \in p..q - 1 : log[i][q2].ev \notin {"step_end", "panic"}
    ELSE Len(log[i])
\* what the executions of the meson steps of the Build i did
MesonRuns(i) ==
  {SubSeq(log[i], p, StepEnd(i, p)) :
     p \in {q \in StepStarts(i) : log[i][q].info.kind = "meson"}}
\* the positions of the run r where the subprocess cmd was run
Cmds(r, cmd) == {p \in At(r, "cmd") : r[p].info[1] = cmd}

\* C10: in one execution of a meson step, compile is run only right after
\* a setup that exited with 0, and install only right after a compile that
\* exited with 0; compile and install are run at most once; when compile
\* or install does not exit with 0 the step returns Err at once; nothing of
\* setup follows a setup that exited with 0; and the step returns Ok only
\* right after an install that exited with 0.
C10_MesonPhases ==
  \A i \in Builds : \A r \in MesonRuns(i) :
    /\ \A p \in Cmds(r, "compile") :
         p - 1 \in Cmds(r, "setup") /\ r[p - 1].ok
    /\ \A p \in Cmds(r, "install") :
         p - 1 \in Cmds(r, "compile") /\ r[p - 1].ok
    /\ Cardinality(Cmds(r, "compile")) <= 1
    /\ Cardinality(Cmds(r, "install")) <= 1
    /\ \A p \in Cmds(r, "compile") \cup Cmds(r, "install") :
         ~r[p].ok => Len(r) = p + 1 /\ r[p + 1].ev = "step_end" /\ ~r[p + 1].ok
    /\ \A p \in Cmds(r, "setup") :
         r[p].ok => \A q \in Cmds(r, "setup") \cup Cmds(r, "promote") : q <= p
    /\ \A p \in At(r, "step_end") :
         r[p].ok => p - 1 \in Cmds(r, "install") /\ r[p - 1].ok

\* an execution of the step that went through a failed setup, a
\* promotion, a second setup and compile to an install that exited with
\* another status than 0, and returned Err
C10_Witness ==
  \E r \in MesonRuns(1) :
    /\ Cmds(r, "promote") # {}
    /\ \E p \in Cmds(r, "compile") : r[p].ok
    /\ \E p \in Cmds(r, "install") : ~r[p].ok
    /\ \E p \in At(r, "step_end") : ~r[p].ok

-----------------------------------------------------------------------------
(* SpecEnv: a builder with a name and a source in an environment that may   *)
(* hold rbuild_n_library_type, rbuild_library_type and the variable of      *)
(* another build, rbuild_s_library_type; library_type may be called on the  *)
(* builder before build().                                                  *)

\* how often library_type is called on one builder
MaxLibraryTypeCalls == 2

\* BuildBuilder::library_type
SetLibraryType(i, ltype) ==
  /\ call = None /\ IsSome(builder[i])
  /\ Len(SelectSeq(log[i], LAMBDA e : e.ev = "library_type")) < MaxLibraryTypeCalls
  /\ builder' = [builder EXCEPT ![i] = Some([@[1] EXCEPT !.library_type = Some(ltype)])]
  /\ log' = [log EXCEPT ![i] = Append(@, Event("library_type", 0, TRUE, ltype))]
  /\ UNCHANGED <<env, tool, build, call, dropped, tmpVars>>

\* the variables of the environment, and the values "Static", "SHARED" and
\* "x" they may have
LibraryTypeVars ==
  {FullName(<<110>>, LibraryTypeKey), FallbackName(LibraryTypeKey),
   FullName(<<115>>, LibraryTypeKey)}
LibraryTypeValues == {<<83, 116, 97, 116, 105, 99>>, <<83, 72, 65, 82, 69, 68>>, <<120>>}

EnvInit ==
  /\ env \in UNION {[D -> LibraryTypeValues] : D \in SUBSET LibraryTypeVars}
  /\ tool = NoTool
  /\ fs = {TempDir}
  /\ inner = <<>>
  /\ build = <<None, None>>
  /\ Idle
  /\ builder = << Some([BuildBuilderNew EXCEPT !.name = Some(<<110>>),
                                               !.source = Some(DirectorySource)]),
                  None >>

EnvNext ==
  \/ \E ltype \in {"Static", "Shared"} : SetLibraryType(1, ltype)
  \/ BuildAct(1)

SpecEnv == EnvInit /\ [][EnvNext]_vars

-----------------------------------------------------------------------------
(* SpecLife: the life of one Build.  A builder is given a name, a source    *)
(* and steps, or not, in an environment where rbuild_library_type may be    *)
(* set to "x" or to "Static"; build() is called; execute is called up to   *)
(* MaxLifeExecutes times on the Build; the Build is destroyed.  Before      *)
(* build(), BuildSourceDirectory::new may be called on a path that is       *)
(* nothing, a file, a directory or a directory that cannot be listed.       *)

\* how often execute is called on the Build
MaxLifeExecutes == 2

LifeInit ==
  /\ env \in {[v \in {} |-> <<>>],
              [v \in {FallbackName(LibraryTypeKey)} |-> <<120>>],
              [v \in {FallbackName(LibraryTypeKey)} |-> <<83, 116, 97, 116, 105, 99>>]}
  /\ tool = NoTool
  /\ fs = {TempDir}
  /\ inner = <<>>
  /\ builder = <<Some(BuildBuilderNew), None>>
  /\ build = <<None, None>>
  /\ Idle

\* what a path can be on the disk: nothing, a file, a directory, a
\* directory that cannot be listed
TargetKinds == {"missing", "file", "directory", "unlistable_directory"}

\* BuildSourceDirectory::new(target), for a target of the kind kind
BuildSourceDirectoryNew(target, kind) ==
  LET exists == kind # "missing"
      target_is_dir == kind \in {"directory", "unlistable_directory"}
      read_dir_ok == kind = "directory"
  IN  IF exists THEN Err("TargetDoesNotExists", <<>>)
      ELSE IF ~target_is_dir THEN Err("TargetIsNotADirectory", <<>>)
      ELSE IF read_dir_ok THEN Err("DirectoryNotAccessable", <<>>)
      ELSE Ok([kind |-> "directory", path |-> target])

\* BuildSourceDirectory::new is called once, on the path of
\* DirectorySource, for the builder i
NewDirectorySource(i) ==
  /\ call = None
  /\ IsSome(builder[i])
  /\ EventsOf(i, "directory_new") = <<>>
  /\ \E kind \in TargetKinds :
       log' = [log EXCEPT ![i] =
                 Append(@, Event("directory_new", 0,
                                 BuildSourceDirectoryNew(DirectorySource.path, kind).ok,
                                 [kind |-> kind,
                                  result |-> BuildSourceDirectoryNew(DirectorySource.path,
                                                                     kind)]))]
  /\ UNCHANGED <<env, tool, fs, inner, builder, build, call, dropped>>

LifeNext ==
  \/ NewDirectorySource(1)
  \/ SetName(1, <<110>>)
  \/ SetSource(1, DirectorySource)
  \/ AddStep(1, DummyBuildStep)
  \/ BuildAct(1)
  \/ ExecuteUpTo(1, MaxLifeExecutes)
  \/ StepDummy
  \/ DropBuild(1)

SpecLife == LifeInit /\ [][LifeNext]_vars

-----------------------------------------------------------------------------
(* SpecEmit: a BuildResult is filled by add_library, add_library_path and   *)
(* add_emit, each list up to MaxEmitEntries entries, and emit_cargo prints  *)
(* it.  call holds the result, log[1] the printed lines.                    *)

\* the entries of each list of the result
MaxEmitEntries == 2

\* the result that is being filled
EmitResult == call[1].result
\* emit_cargo was called
Emitted == call[1].pc = "emitted"

EmitInit ==
  /\ env = [v \in {} |-> <<>>]
  /\ tool = NoTool
  /\ fs = {TempDir}
  /\ inner = <<>>
  /\ builder = <<None, None>>
  /\ build = <<None, None>>
  /\ call = Some([pc |-> "result", result |-> BuildResultNew])
  /\ log = <<<<>>, <<>>>>
  /\ dropped = {}

EmitAddLibrary ==
  /\ ~Emitted
  /\ Len(EmitResult.libraries) < MaxEmitEntries
  /\ \E name \in {<<97>>}, kind \in {None, Some("Static"), Some("Shared")} :
       call' = Some([call[1] EXCEPT !.result = add_library(@, name, kind)])
  /\ UNCHANGED <<env, tool, fs, inner, builder, build, log, dropped>>

EmitAddLibraryPath ==
  /\ ~Emitted
  /\ Len(EmitResult.library_paths) < MaxEmitEntries
  /\ \E path \in {<<47, 111>>}, kind \in {None, Some("Native")} :
       call' = Some([call[1] EXCEPT !.result = add_library_path(@, path, kind)])
  /\ UNCHANGED <<env, tool, fs, inner, builder, build, log, dropped>>

EmitAddEmit ==
  /\ ~Emitted
  /\ Len(EmitResult.custom_compiler_emits) < MaxEmitEntries
  /\ \E line \in {<<114, 117, 115, 116, 99, 45, 99, 102, 103, 61, 120>>, <<114, 101, 114, 117, 110, 45, 105, 102, 45, 99, 104, 97, 110, 103, 101, 100, 61, 98>>} :
       call' = Some([call[1] EXCEPT !.result = add_emit(@, line)])
  /\ UNCHANGED <<env, tool, fs, inner, builder, build, log, dropped>>

\* emit_cargo(&self): prints; the result stays as it is
EmitCargo ==
  /\ ~Emitted
  /\ call' = Some([call[1] EXCEPT !.pc = "emitted"])
  /\ log' = [log EXCEPT ![1] = @ \o emit_cargo(EmitResult)]
  /\ UNCHANGED <<env, tool, fs, inner, builder, build, dropped>>

EmitNext == EmitAddLibrary \/ EmitAddLibraryPath \/ EmitAddEmit \/ EmitCargo

SpecEmit == EmitInit /\ [][EmitNext]_vars

-----------------------------------------------------------------------------
(* SpecGit: a Build without steps on a git source, on a machine where the   *)
(* checkout directory may exist from an earlier process, and execute        *)
(* called on it up to MaxGitSetups times, each call running source.setup(). *)

\* how often setup is called on one BuildSourceGit
MaxGitSetups == 2

\* BuildSourceGit::builder("u") with and without skip_revision_checkout,
\* with and without the revision "r"
GitSources ==
  {[GitSource EXCEPT !.skip_revision_checkout = b, !.revision = r] :
     b \in BOOLEAN, r \in {None, Some(<<114>>)}}
\* the checkout directory of src when no variable of the environment is set
CheckoutDir(src) ==
  TemporaryPathOf([v \in {} |-> <<>>], temporary_directory_name(src),
                  src.checkout_folder)

GitInit ==
  /\ env = [v \in {} |-> <<>>]
  /\ tool = NoTool
  /\ inner = <<>>
  /\ build = <<None, None>>
  /\ Idle
  /\ \E src \in GitSources :
       /\ builder = << Some([BuildBuilderNew EXCEPT !.name = Some(<<110>>),
                                                    !.source = Some(src)]),
                       None >>
       /\ \E path \in {CheckoutDir(src)} :
            fs \in { {TempDir},
                     CreateDirAll({TempDir}, path),
                     CreateDirAll({TempDir}, Join(path, DotGit)) }

\* BuildSourceGit::cleanup on the source of the Build i, when it holds a
\* directory: release, and local_folder loses its owner
GitCleanup(i) ==
  /\ call = None
  /\ Alive(i)
  /\ build[i][1].value.source.kind = "git"
  /\ IsSome(build[i][1].value.source.local_folder)
  /\ LET h == build[i][1].value.source.local_folder[1]
         released == ReleaseInner(inner, h)
     IN  /\ fs' = DropDirs(fs, released, h)
         /\ inner' = DropOwner(released, h)
  /\ build' = [build EXCEPT ![i] =
                 Some(Ok([build[i][1].value EXCEPT !.source.local_folder = None]))]
  /\ log' = [log EXCEPT ![i] = Append(@, Event("cleanup", 0, TRUE, <<>>))]
  /\ UNCHANGED <<env, tool, builder, call, dropped>>

GitNext ==
  \/ BuildAct(1)
  \/ ExecuteUpTo(1, MaxGitSetups)
  \/ GitCleanup(1)
  \/ DropBuild(1)

SpecGit == GitInit /\ [][GitNext]_vars

-----------------------------------------------------------------------------
(* The setup loop of the MesonBuild step: claims C11 to C14, under          *)
(* SpecMeson.  A "cmd" event of meson setup holds the stdout that the       *)
(* subprocess printed.                                                      *)

\* the diagnostic starts at the byte j of the line l
DiagnosticAt(l, j) ==
  /\ j + Len(PromoteDiagnostic) - 1 <= Len(l)
  /\ SubSeq(l, j, j + Len(PromoteDiagnostic) - 1) = PromoteDiagnostic
\* a line of out holds the diagnostic
HasDiagnostic(out) ==
  \E k \in 1..Len(out) : \E j \in 1..Len(out[k]) : DiagnosticAt(out[k], j)
\* arg is what follows the diagnostic in the first line of out that holds
\* it (the lines of the model hold the diagnostic at most once)
IsArgumentOf(arg, out) ==
  \E k \in 1..Len(out) :
    /\ \A k2 \in 1..k - 1 : \A j \in 1..Len(out[k2]) : ~DiagnosticAt(out[k2], j)
    /\ \E j \in 1..Len(out[k]) :
         /\ DiagnosticAt(out[k], j)
         /\ \A j2 \in 1..j - 1 : ~DiagnosticAt(out[k], j2)
         /\ arg = SubSeq(out[k], j + Len(PromoteDiagnostic), Len(out[k]))
\* the setup attempt at the position p of the run r failed
SetupFailedAt(r, p) == p \in Cmds(r, "setup") /\ ~r[p].ok
\* the step of the run r has a promote callback
HasCallback(r) == r[1].info.callback_promote

\* C11: when a setup attempt of a meson step fails, its stdout holds a line
\* with "meson wrap promote <argument>" and the step has a promote
\* callback, the callback is called with that argument; when it returns a
\* list that is not empty, the step does not return the error of the
\* attempt: it runs meson wrap promote for the files of the list, one
\* after the other and in the order of the list, as long as the promotions
\* succeed, and after the last of them it attempts setup again.
C11_SetupRecovery ==
  \A i \in Builds : \A r \in MesonRuns(i) : \A p \in 1..Len(r) :
    (SetupFailedAt(r, p) /\ HasDiagnostic(r[p].info[2]) /\ HasCallback(r)) =>
      /\ p + 1 <= Len(r)
      /\ r[p + 1].ev = "callback"
      /\ IsArgumentOf(r[p + 1].info.argument, r[p].info[2])
      /\ r[p + 1].info.files # <<>> =>
           LET files == r[p + 1].info.files
               n == Len(files)
           IN  /\ \A j \in 1..n :
                    (p + 1 + j <= Len(r) /\ \A j2 \in 1..j - 1 : r[p + 1 + j2].ok) =>
                      /\ r[p + 1 + j].ev = "cmd"
                      /\ r[p + 1 + j].info = <<"promote", files[j]>>
               /\ (p + 2 + n <= Len(r) /\ \A j \in 1..n : r[p + 1 + j].ok) =>
                    /\ r[p + 2 + n].ev = "cmd"
                    /\ r[p + 2 + n].info[1] = "setup"

\* setup failed with the diagnostic in the second line of its stdout, the
\* callback was called with "v now" and returned two files, both were
\* promoted and setup was attempted a second time
C11_Witness ==
  \E r \in MesonRuns(1) : \E p \in 1..Len(r) :
    /\ SetupFailedAt(r, p) /\ r[p].info[2] = <<LineError, DiagnosticV>>
    /\ p + 4 <= Len(r)
    /\ r[p + 1].ev = "callback"
    /\ r[p + 1].info = [argument |-> <<118, 32, 110, 111, 119>>,
                        files |-> <<<<119>>, <<118>>>>]
    /\ r[p + 2].info = <<"promote", <<119>>>> /\ r[p + 2].ok
    /\ r[p + 3].info = <<"promote", <<118>>>> /\ r[p + 3].ok
    /\ r[p + 4].ev = "cmd" /\ r[p + 4].info[1] = "setup"

\* the callback was called right after the setup attempt at p
CallbackAfter(r, p) == p + 1 <= Len(r) /\ r[p + 1].ev = "callback"

\* C12: when a setup attempt of a meson step fails and its stdout holds no
\* line with the diagnostic, or the step has no promote callback, or the
\* callback returns an empty list, the step returns the error of that
\* attempt ("failed to setup build" with the stdout of the attempt) and
\* does nothing else: no promotion, no further setup, no compile and no
\* install.
C12_SetupFatal ==
  \A i \in Builds : \A r \in MesonRuns(i) : \A p \in 1..Len(r) :
    ( /\ SetupFailedAt(r, p)
      /\ \/ ~HasDiagnostic(r[p].info[2])
         \/ ~HasCallback(r)
         \/ CallbackAfter(r, p) /\ r[p + 1].info.files = <<>> ) =>
      LET q == IF CallbackAfter(r, p) THEN p + 2 ELSE p + 1
      IN  /\ Len(r) = q
          /\ r[q].ev = "step_end" /\ ~r[q].ok
          /\ r[q].info = [detail |-> "failed to setup build",
                          stdout |-> r[p].info[2], stderr |-> <<>>]
          /\ CallbackAfter(r, p) => HasDiagnostic(r[p].info[2]) /\ HasCallback(r)

\* a setup attempt printed the diagnostic, the callback returned no file
\* and the step returned the error of the attempt, with that stdout
C12_Witness ==
  \E r \in MesonRuns(1) : \E p \in 1..Len(r) :
    /\ SetupFailedAt(r, p)
    /\ r[p].info[2] = <<DiagnosticW>>
    /\ CallbackAfter(r, p) /\ r[p + 1].info.files = <<>>
    /\ Len(r) = p + 2
    /\ r[p + 2].ev = "step_end" /\ r[p + 2].info.stdout = <<DiagnosticW>>

\* C13: when a promote subprocess of a meson step fails, by not starting
\* or by exiting with another status than 0, the step returns at once the
\* error of that command, "failed to execute promote command for <file>",
\* which is not the error of the setup attempt: no other file is promoted,
\* setup is not attempted again, compile and install are not run.
C13_PromoteFatal ==
  \A i \in Builds : \A r \in MesonRuns(i) : \A p \in Cmds(r, "promote") :
    ~r[p].ok =>
      /\ Len(r) = p + 1
      /\ r[p + 1].ev = "step_end" /\ ~r[p + 1].ok
      /\ r[p + 1].info.detail = <<"failed to execute promote command for", r[p].info[2]>>
      /\ \A q \in Cmds(r, "setup") :
           r[p + 1].info # [detail |-> "failed to setup build",
                            stdout |-> r[q].info[2], stderr |-> <<>>]

\* the callback returned two files, the promotion of the first one failed
\* and the step returned its error without promoting the second
C13_Witness ==
  \E r \in MesonRuns(1) : \E p \in Cmds(r, "promote") :
    /\ r[p - 1].ev = "callback" /\ r[p - 1].info.files = <<<<119>>, <<118>>>>
    /\ r[p].info[2] = <<119>> /\ ~r[p].ok
    /\ Len(r) = p + 1
    /\ r[p + 1].ev = "step_end"
    /\ r[p + 1].info.detail = <<"failed to execute promote command for", <<119>>>>

\* C14: the setup loop of a meson step is bounded: whatever the tool prints
\* and the callback returns, the step is through with setup after at most
\* MaxSetupAttempts attempts, the number of attempts that the model
\* follows; it is never back at the top of the loop, with execute_setup
\* set, after that many attempts.
C14_SetupLoopBounded ==
  (IsSome(call) /\ call[1].pc = "meson_setup") =>
    call[1].attempts < MaxSetupAttempts

-----------------------------------------------------------------------------
(* The install manifest of the MesonBuild step: claims C15 to C18, under    *)
(* SpecMeson.  A "cmd" event of meson install holds the stdout that the     *)
(* subprocess printed.                                                      *)

\* what follows "Installing " in the line l
Remainder(l) == SubSeq(l, Len(InstallingPrefix) + 1, Len(l))
\* the line l of the manifest has more than one " to ", or has no source
\* side or no target side
Malformed(l) ==
  LET sides == Split(Remainder(l), ToSeparator)
  IN  Len(sides) # 2 \/ sides[1] = <<>> \/ sides[2] = <<>>
\* the malformed "Installing " lines of out
MalformedLines(out) ==
  {k \in 1..Len(out) : StartsWith(out[k], InstallingPrefix) /\ Malformed(out[k])}
\* the positions of the run r where meson install exited with 0
Installed(r) == {p \in Cmds(r, "install") : r[p].ok}

\* C15: when the output of a meson install that exited with 0 holds a line
\* that starts with "Installing " and has more than one " to " or lacks
\* its source side or its target side, the step returns a BuildStepError
\* whose detail holds such a line; when it holds no such line the step
\* returns no error, whatever its other lines are.
C15_ManifestParseErrors ==
  \A i \in Builds : \A r \in MesonRuns(i) : \A p \in Installed(r) :
    LET bad == MalformedLines(r[p].info[2])
    IN  /\ r[p + 1].ev = "step_end"
        /\ bad # {} =>
             /\ ~r[p + 1].ok
             /\ \E k \in bad : r[p + 1].info.detail[2] = r[p].info[2][k]
        /\ bad = {} => r[p + 1].ok

\* the pairs that the manifest out was parsed to, a function from the
\* sources to their targets
PairsOf(out) == ParseInstall(out, <<>>).value
\* the linkage kind that the extension of source stands for, if any
KindOf(source) ==
  IF ~IsSome(extension(source)) THEN None
  ELSE IF extension(source)[1] \in {<<97>>, <<108, 105, 98>>} THEN Some("Static")
  ELSE IF extension(source)[1] \in {<<115, 111>>, <<100, 108, 108>>} THEN Some("Shared")
  ELSE None
\* the pairs of the manifest out that name a library installed to a
\* directory
LibraryPairs(out) ==
  {k \in DOMAIN PairsOf(out) : IsSome(KindOf(k)) /\ ParsePath(PairsOf(out)[k]) \in fs}
\* the step of the run r parsed the manifest of the install at p and
\* returned Ok
ParsedAt(r, p) == p \in Installed(r) /\ r[p + 1].ev = "step_end" /\ r[p + 1].ok

\* C16: a meson step that parsed its manifest appended, for every pair whose
\* source has the extension a, lib, so or dll and whose target is a
\* directory, one library entry with the file name of the source and the
\* kind Static (a, lib) or Shared (so, dll) and one search path with the
\* target and the kind Native, the two at the same position of their
\* lists; and it appended nothing else.
C16_ManifestClassification ==
  \A i \in Builds : \A r \in MesonRuns(i) : \A p \in 1..Len(r) :
    ParsedAt(r, p) =>
      \E order \in Perms(LibraryPairs(r[p].info[2])) :
        /\ r[p + 1].info.libraries =
             [j \in 1..Len(order) |->
                [name |-> file_name(order[j])[1], kind |-> KindOf(order[j])]]
        /\ r[p + 1].info.library_paths =
             [j \in 1..Len(order) |->
                [path |-> PairsOf(r[p].info[2])[order[j]], kind |-> "Native"]]

\* "Installing /x/libfoo.a to /out/lib", "Installing z.dll to /o" and
\* "Installing bin to /o" gave the static library libfoo.a with the search
\* path /out/lib and the shared library z.dll with the search path /o
C16_Witness ==
  \E r \in MesonRuns(1) : \E p \in 1..Len(r) :
    /\ ParsedAt(r, p)
    /\ r[p].info[2] = <<InstallLibfoo, InstallZDll, InstallBin>>
    /\ r[p + 1].info.libraries =
         << [name |-> <<108, 105, 98, 102, 111, 111, 46, 97>>, kind |-> Some("Static")],
            [name |-> <<122, 46, 100, 108, 108>>, kind |-> Some("Shared")] >>
    /\ r[p + 1].info.library_paths =
         << [path |-> <<47, 111, 117, 116, 47, 108, 105, 98>>, kind |-> "Native"],
            [path |-> <<47, 111>>, kind |-> "Native"] >>

\* the sources of the manifest out whose target is not a directory
NotToDirectory(out) ==
  {k \in DOMAIN PairsOf(out) : ParsePath(PairsOf(out)[k]) \notin fs}
\* the entries of the sequence q
Range(q) == {q[j] : j \in 1..Len(q)}

\* C17: a manifest without a malformed line never fails the step, also when
\* the target of an entry is not a directory: such an entry adds no
\* library and no search path, and every library entry of the manifest
\* whose target is a directory is added all the same.
C17_TargetNotDirectory ==
  \A i \in Builds : \A r \in MesonRuns(i) : \A p \in Installed(r) :
    ParseInstall(r[p].info[2], <<>>).ok =>
      LET out == r[p].info[2]
      IN  /\ r[p + 1].ev = "step_end" /\ r[p + 1].ok
          /\ Len(r[p + 1].info.libraries) = Cardinality(LibraryPairs(out))
          /\ Len(r[p + 1].info.library_paths) = Cardinality(LibraryPairs(out))
          /\ \A k \in NotToDirectory(out) :
               \A e \in Range(r[p + 1].info.library_paths) : e.path # PairsOf(out)[k]
          /\ \A k \in LibraryPairs(out) :
               /\ [name |-> file_name(k)[1], kind |-> KindOf(k)]
                    \in Range(r[p + 1].info.libraries)
               /\ [path |-> PairsOf(out)[k], kind |-> "Native"]
                    \in Range(r[p + 1].info.library_paths)

\* "Installing x.a to /p", where /p is no directory, and "Installing y.so
\* to /o": the step returned Ok with the library y.so and the path /o only
C17_Witness ==
  \E r \in MesonRuns(1) : \E p \in Installed(r) :
    /\ r[p].info[2] = <<InstallXAToP, InstallYSo>>
    /\ r[p + 1].ev = "step_end" /\ r[p + 1].ok
    /\ r[p + 1].info.libraries = << [name |-> <<121, 46, 115, 111>>, kind |-> Some("Shared")] >>
    /\ r[p + 1].info.library_paths = << [path |-> <<47, 111>>, kind |-> "Native"] >>

\* the source and the target that the line l of a manifest names
SourceOf(l) == Split(Remainder(l), ToSeparator)[1]
TargetOf(l) == Split(Remainder(l), ToSeparator)[2]
\* the "Installing " lines of out, and those of them that name source
ManifestLines(out) == {k \in 1..Len(out) : StartsWith(out[k], InstallingPrefix)}
LinesOf(out, source) == {k \in ManifestLines(out) : SourceOf(out[k]) = source}
\* the last line of out that names source
LastLineOf(out, source) ==
  CHOOSE k \in LinesOf(out, source) : \A k2 \in LinesOf(out, source) : k2 <= k
\* the sources that the manifest out names
SourcesOf(out) == {SourceOf(out[k]) : k \in ManifestLines(out)}

\* C18: however many lines of a parsed manifest name a source, the step
\* adds at most one library entry for it (the sources of a manifest of the
\* model have file names of their own), and the search path added with
\* that entry is the target of the last line that names the source.
C18_LastWriterWins ==
  \A i \in Builds : \A r \in MesonRuns(i) : \A p \in 1..Len(r) :
    ParsedAt(r, p) =>
      LET out == r[p].info[2]
          libs == r[p + 1].info.libraries
          paths == r[p + 1].info.library_paths
      IN  \A s \in SourcesOf(out) :
            ( /\ IsSome(file_name(s))
              /\ \A s2 \in SourcesOf(out) \ {s} : file_name(s2) # file_name(s) ) =>
              LET entries == {j \in 1..Len(libs) : libs[j].name = file_name(s)[1]}
              IN  /\ Cardinality(entries) <= 1
                  /\ \A j \in entries :
                       paths[j].path = TargetOf(out[LastLineOf(out, s)])

\* "Installing x.a to /o" and then "Installing x.a to /q" gave one library
\* x.a, with the search path /q
C18_Witness ==
  \E r \in MesonRuns(1) : \E p \in 1..Len(r) :
    /\ ParsedAt(r, p)
    /\ r[p].info[2] = <<InstallXA, InstallXAToQ>>
    /\ r[p + 1].info.libraries = << [name |-> <<120, 46, 97>>, kind |-> Some("Static")] >>
    /\ r[p + 1].info.library_paths = << [path |-> <<47, 113>>, kind |-> "Native"] >>

-----------------------------------------------------------------------------
(* BuildSourceGit::setup called more than once: claim C19, under SpecGit.   *)

\* the calls of setup on the source of the Build i, in their order
SetupCalls(i) == EventsOf(i, "source_setup")

\* C19: with no cleanup in between, every call of setup on a git source
\* after the first one returns an error and runs no fetch, clone or reset,
\* however the call before it ended; and once a call of setup has returned
\* Ok, local_directory() is the checkout directory.
C19_GitSetupOnce ==
  \A i \in Builds :
    EventsOf(i, "cleanup") = <<>> =>
    /\ \A k \in 2..Len(SetupCalls(i)) :
         ~SetupCalls(i)[k].ok /\ SetupCalls(i)[k].info.cmds = <<>>
    /\ (\E k \in 1..Len(SetupCalls(i)) : SetupCalls(i)[k].ok) =>
         LET src == build[i][1].value.source
         IN  /\ IsSome(src.local_folder)
             /\ inner[src.local_folder[1]].path = CheckoutDir(src)

-----------------------------------------------------------------------------
(* The library type of a Build: claim C20, under SpecEnv.                   *)

\* the library type given to the builder of the Build i, if any: the one
\* of the last call of library_type
ExplicitLibraryType(i) ==
  IF EventsOf(i, "library_type") = <<>> THEN None
  ELSE Some(EventsOf(i, "library_type")[Len(EventsOf(i, "library_type"))].info)
\* the value that the environment holds for the build "n": the one of
\* rbuild_n_library_type if that is set, else the one of
\* rbuild_library_type if that is set
\* (rbuild_n_library_type and rbuild_library_type, as bytes)
VarOfN == <<114, 98, 117, 105, 108, 100, 95, 110, 95, 108, 105, 98, 114, 97, 114, 121, 95, 116, 121, 112, 101>>
VarGeneral == <<114, 98, 117, 105, 108, 100, 95, 108, 105, 98, 114, 97, 114, 121, 95, 116, 121, 112, 101>>
EnvLibraryType ==
  IF VarOfN \in DOMAIN env THEN Some(env[VarOfN])
  ELSE IF VarGeneral \in DOMAIN env THEN Some(env[VarGeneral])
  ELSE None
\* the kind that the value v names, whatever its case
NamedKind(v) ==
  IF ToLowercase(v) = <<115, 116, 97, 116, 105, 99>> THEN Some("Static")
  ELSE IF ToLowercase(v) = <<115, 104, 97, 114, 101, 100>> THEN Some("Shared")
  ELSE None

\* C20: build() gives the Build the library type that was given to the
\* builder, whatever the environment holds; without such a type, the kind
\* named by rbuild_<name>_library_type if that variable is set, else the
\* kind named by rbuild_library_type if that one is set, "static" and
\* "shared" in any case; a variable that is used and names no kind makes
\* build() return InvalidEnvLibraryType with its value; and without a type
\* and without the two variables the kind is Shared.
C20_LibraryTypeResolution ==
  \A i \in Builds :
    IsSome(build[i]) =>
      LET wanted ==
            IF IsSome(ExplicitLibraryType(i)) THEN ExplicitLibraryType(i)
            ELSE IF ~IsSome(EnvLibraryType) THEN Some("Shared")
            ELSE NamedKind(EnvLibraryType[1])
      IN  IF IsSome(wanted)
            THEN /\ build[i][1].ok => build[i][1].value.library_type = wanted[1]
                 /\ ~build[i][1].ok => build[i][1].error # "InvalidEnvLibraryType"
            ELSE build[i][1] = [ok |-> FALSE, error |-> "InvalidEnvLibraryType",
                                value |-> EnvLibraryType[1]]

\* build() returned a Static Build for a builder without a library type,
\* with rbuild_n_library_type set to "Static" and rbuild_library_type set
\* to "x"
C20_Witness ==
  /\ IsSome(build[1]) /\ build[1][1].ok
  /\ build[1][1].value.library_type = "Static"
  /\ ExplicitLibraryType(1) = None
  /\ VarOfN \in DOMAIN env /\ env[VarOfN] = <<83, 116, 97, 116, 105, 99>>
  /\ VarGeneral \in DOMAIN env /\ env[VarGeneral] = <<120>>

-----------------------------------------------------------------------------
(* The construction and the life of a Build: claims C21 and C24, under      *)
(* SpecLife.                                                                *)

\* build() is called on the builder i in this step
BuildCalled(i) == IsSome(builder[i]) /\ ~IsSome(builder'[i])
\* the value of rbuild_library_type, when it is set and names no kind
InvalidGeneralValue ==
  IF VarGeneral \in DOMAIN env /\ ~IsSome(NamedKind(env[VarGeneral]))
    THEN Some(env[VarGeneral]) ELSE None
\* build() returned one of the three errors of the construction
ConstructionError(i) ==
  /\ IsSome(build[i]) /\ ~build[i][1].ok
  /\ build[i][1].error \in {"MissingName", "MissingSource", "InvalidEnvLibraryType"}

\* C21: build() on a builder without a name returns MissingName; with a
\* name and without a source MissingSource; with both, without a library
\* type and with a value in the environment that names no kind,
\* InvalidEnvLibraryType with that value.  The call that returns one of
\* the three creates no directory and no TemporaryPath, and after it
\* execute was never called: no setup of a source, no step.
C21_ConstructionFailsFast ==
  /\ [][ \A i \in Builds :
           BuildCalled(i) =>
             LET b == builder[i][1]
             IN  /\ ~IsSome(b.name) => build'[i][1] = Err("MissingName", <<>>)
                 /\ (IsSome(b.name) /\ ~IsSome(b.source)) =>
                      build'[i][1] = Err("MissingSource", <<>>)
                 /\ ( /\ IsSome(b.name) /\ IsSome(b.source)
                      /\ ~IsSome(b.library_type) /\ IsSome(InvalidGeneralValue) ) =>
                      build'[i][1] = Err("InvalidEnvLibraryType", InvalidGeneralValue[1])
                 /\ ConstructionError(i)' => fs' = fs /\ inner' = inner
       ]_vars
  /\ [](\A i \in Builds :
          ConstructionError(i) =>
            /\ fs = {TempDir} /\ inner = <<>>
            /\ \A k \in 1..Len(log[i]) :
                 log[i][k].ev \notin {"execute", "source_setup", "step_start"})

\* build() returned InvalidEnvLibraryType with "x" for a builder with a
\* name, a source and a step, and there is no directory but /tmp
C21_Witness ==
  /\ IsSome(build[1])
  /\ build[1][1] = Err("InvalidEnvLibraryType", <<120>>)
  /\ Len(EventsOf(1, "add_step")) = 1
  /\ fs = {TempDir}

\* C24: over all the calls of execute on one Build, the setup of the
\* source succeeded at most once and no step was started more than once.
C24_ExecutedOnce ==
  \A i \in Builds :
    /\ Cardinality({p \in 1..Len(log[i]) :
                      log[i][p].ev = "source_setup" /\ log[i][p].ok}) <= 1
    /\ \A p, q \in 1..Len(log[i]) :
         ( /\ log[i][p].ev = "step_start" /\ log[i][q].ev = "step_start"
           /\ log[i][p].idx = log[i][q].idx ) => p = q

\* C26: BuildSourceDirectory::new returns Ok exactly for a target that is
\* a directory that can be listed, TargetDoesNotExists for one that does
\* not exist, TargetIsNotADirectory for a file and DirectoryNotAccessable
\* for a directory that cannot be listed.
C26_DirectorySourceNew ==
  \A i \in Builds : \A k \in 1..Len(log[i]) :
    log[i][k].ev = "directory_new" =>
      LET kind == log[i][k].info.kind
          r == log[i][k].info.result
      IN  /\ r.ok <=> kind = "directory"
          /\ kind = "missing" => r = Err("TargetDoesNotExists", <<>>)
          /\ kind = "file" => r = Err("TargetIsNotADirectory", <<>>)
          /\ kind = "unlistable_directory" => r = Err("DirectoryNotAccessable", <<>>)

-----------------------------------------------------------------------------
(* The name of the working directory: claim C22, under SpecHash.            *)

\* the base64 alphabet
Alphabet ==
  [n \in 0..63 |->
     IF n < 26 THEN 65 + n ELSE IF n < 52 THEN 71 + n
     ELSE IF n < 62 THEN n - 4 ELSE IF n = 62 THEN 43 ELSE 47]
\* bit k of the 64-bit value h, bit 0 the most significant; 0 beyond 63
BitOf(h, k) ==
  IF k > 63 THEN 0 ELSE (h[4 - (k \div 16)] \div (2 ^ (15 - (k % 16)))) % 2
\* the j-th group of six bits of the big-endian bytes of h
Sextet(h, j) ==
  32 * BitOf(h, 6 * j) + 16 * BitOf(h, 6 * j + 1) + 8 * BitOf(h, 6 * j + 2)
    + 4 * BitOf(h, 6 * j + 3) + 2 * BitOf(h, 6 * j + 4) + BitOf(h, 6 * j + 5)
\* the base64 rendering of the 8 big-endian bytes of h: 11 characters and '='
RawToken(h) == [j \in 1..12 |-> IF j = 12 THEN 61 ELSE Alphabet[Sextet(h, j - 1)]]
\* the token: every '/' of the rendering replaced by '_'
TokenOf(h) == [j \in 1..12 |-> IF RawToken(h)[j] = 47 THEN 95 ELSE RawToken(h)[j]]

\* C22: the working directory created by build() is the directory
\* build_<name>_<token> directly below the base directory, <token> the
\* base64 rendering of the 8 big-endian bytes of build_hash with '_' for
\* every '/'; the token holds no '/' and the path has exactly one
\* component more than the base directory.
C22_WorkDirName ==
  \A i \in Builds :
    BuiltOk(i) =>
      LET p == inner[TheBuild(i).build_path].path
          t == TokenOf(TheBuild(i).build_hash)
      IN  /\ Len(p.comps) = Len(TempDir.comps) + 1
          /\ SubSeq(p.comps, 1, Len(TempDir.comps)) = TempDir.comps
          /\ p.comps[Len(p.comps)] =
               <<98, 117, 105, 108, 100, 95>> \o TheBuild(i).name \o <<95>> \o t
          /\ \A j \in 1..Len(t) : t[j] # 47
          /\ p \in fs

\* a Build whose hash has a '/' in its base64 rendering
C22_Witness ==
  \E i \in Builds :
    /\ BuiltOk(i)
    /\ \E j \in 1..12 : RawToken(TheBuild(i).build_hash)[j] = 47

-----------------------------------------------------------------------------
(* The output of emit_cargo: claim C23, under SpecEmit.                     *)

\* the line of a search path: rustc-link-search with the kind and the
\* path, or with the path alone for the kind All
SearchLines(p) ==
  { <<99, 97, 114, 103, 111, 58, 114, 117, 115, 116, 99, 45, 108, 105, 110, 107, 45, 115, 101, 97, 114, 99, 104, 61>> \o
      (CASE p.kind = "Native" -> <<110, 97, 116, 105, 118, 101, 61>>
         [] p.kind = "All" -> <<97, 108, 108, 61>>
         [] OTHER -> <<>>) \o p.path }
  \cup (IF p.kind = "All" THEN { <<99, 97, 114, 103, 111, 58, 114, 117, 115, 116, 99, 45, 108, 105, 110, 107, 45, 115, 101, 97, 114, 99, 104, 61>> \o p.path } ELSE {})
\* the line of a library: rustc-link-lib with the kind and the name, or
\* with the name alone for a library without a kind
LibLine(l) ==
  <<99, 97, 114, 103, 111, 58, 114, 117, 115, 116, 99, 45, 108, 105, 110, 107, 45, 108, 105, 98, 61>> \o
    (IF l.kind = Some("Static") THEN <<115, 116, 97, 116, 105, 99, 61>>
     ELSE IF l.kind = Some("Shared") THEN <<100, 121, 108, 105, 98, 61>> ELSE <<>>) \o l.name
\* the line of a free-form emission
PassLine(e) == <<99, 97, 114, 103, 111, 58>> \o e

\* C23: what emit_cargo printed is one link-search line per search path,
\* then one link-lib line per library, then one line per emission, each
\* group in the order of insertion.
C23_EmitProtocol ==
  Emitted =>
    LET r == EmitResult
        np == Len(r.library_paths)
        nl == Len(r.libraries)
        ne == Len(r.custom_compiler_emits)
        out == log[1]
    IN  /\ Len(out) = np + nl + ne
        /\ \A k \in 1..np : out[k] \in SearchLines(r.library_paths[k])
        /\ \A k \in 1..nl : out[np + k] = LibLine(r.libraries[k])
        /\ \A k \in 1..ne : out[np + nl + k] = PassLine(r.custom_compiler_emits[k])

-----------------------------------------------------------------------------
(* The acquisition path of the git setup: claim C25, under SpecGit.         *)

\* setup is called on the source of the Build i in this step
SetupStep(i) == Len(SetupCalls(i)') = Len(SetupCalls(i)) + 1
\* what that call did
ThisSetup(i) == SetupCalls(i)'[Len(SetupCalls(i)')]
\* the call got as far as the test of the .git marker: it did not return
\* at the guard, at the test of the git binary or at the creation of the
\* directory
ReachedMarkerTest(e) ==
  e.ok \/ e.info.error.detail \notin
            {"the source has already been initialized", "git error",
             "failed to create git checkout directory"}
\* the replacement of the directory itself failed (an io error, no
\* subprocess)
ReplacementFailed(e) ==
  ~e.ok /\ e.info.error.detail \in
             {"failed to remove old temporary checkout directory",
              "failed to create new temporary checkout directory"}
\* the positions of the subprocess cmd in the commands c
Ran(c, cmd) == {k \in 1..Len(c) : c[k].cmd = cmd}
\* the revision that reset is given
RevisionOrHead(src) ==
  IF src.revision = None THEN <<72, 69, 65, 68>> ELSE src.revision[1]

\* C25: a setup that reaches the test of the .git marker runs fetch
\* first when the marker exists and clone first, and no fetch, when it
\* does not.  After a fetch that succeeds no clone is run.  After a fetch
\* that fails with "not a git repository" the directory is removed and
\* created again and clone is run, unless the removal or the creation
\* itself fails, which fails setup.  After a fetch that fails otherwise
\* setup fails with the error of fetch and runs nothing else.  After a
\* successful fetch or clone reset --hard <revision or HEAD> is run exactly
\* once, as the last subprocess, unless skip_revision_checkout is set;
\* reset is run in no other case.  A failing clone or reset, and a failing
\* fetch that did not report "not a git repository", makes setup fail, and
\* setup succeeds only when fetch or clone, and the reset if there is one,
\* succeeded.
C25_GitAcquisition ==
  [][ \A i \in Builds :
        (SetupStep(i) /\ ReachedMarkerTest(ThisSetup(i))) =>
          LET e == ThisSetup(i)
              c == e.info.cmds
              src == build[i][1].value.source
              dir == CheckoutDir(src)
              had == Join(dir, DotGit) \in fs
              acquired == \E k \in 1..Len(c) :
                            c[k].cmd \in {"fetch", "clone"} /\ c[k].status = "ok"
          IN  /\ Len(c) >= 1
              /\ had => c[1].cmd = "fetch" /\ Ran(c, "fetch") = {1}
              /\ ~had => c[1].cmd = "clone" /\ Ran(c, "fetch") = {}
              /\ Cardinality(Ran(c, "clone")) <= 1
              /\ (had /\ c[1].status = "ok") => Ran(c, "clone") = {}
              /\ (had /\ c[1].status = "not_a_repo") =>
                   IF ReplacementFailed(e) THEN Len(c) = 1
                   ELSE /\ Ran(c, "clone") = {2}
                        /\ c[2].arg = src.repository_url
                        /\ dir \in fs'
                        /\ c[2].status # "ok" => Join(dir, DotGit) \notin fs'
              /\ (had /\ c[1].status = "fail") =>
                   /\ ~e.ok /\ Len(c) = 1
                   /\ e.info.error.detail = "git fetch failed"
              /\ (acquired /\ ~src.skip_revision_checkout) =>
                   /\ Ran(c, "reset") = {Len(c)}
                   /\ c[Len(c)].arg = RevisionOrHead(src)
              /\ (~acquired \/ src.skip_revision_checkout) => Ran(c, "reset") = {}
              /\ \A k \in 1..Len(c) :
                   (c[k].status = "fail") => ~e.ok /\ k = Len(c)
              /\ e.ok <=> ( /\ acquired
                            /\ \A k \in Ran(c, "reset") : c[k].status = "ok" )
    ]_vars

\* a setup on the source with the revision "r" whose fetch reported "not a
\* git repository", that cloned and reset to "r" and returned Ok
C25_Witness ==
  \E k \in 1..Len(SetupCalls(1)) :
    /\ SetupCalls(1)[k].ok
    /\ SetupCalls(1)[k].info.cmds =
         << [cmd |-> "fetch", arg |-> <<>>, status |-> "not_a_repo"],
            [cmd |-> "clone", arg |-> <<117>>, status |-> "ok"],
            [cmd |-> "reset", arg |-> <<114>>, status |-> "ok"] >>

-----------------------------------------------------------------------------
(* Directories and the handles that still use them: claim C27, under        *)
(* SpecTmp.                                                                 *)

\* C27: no step removes a directory to which a TemporaryPath that is
\* still alive after the step refers, whoever created that TemporaryPath.
C27_NoRemovalUnderLiveHandle ==
  [][ \A h \in 1..Len(inner) :
        (inner'[h].strong > 0 /\ inner[h].path \in fs) => inner[h].path \in fs'
    ]_vars

-----------------------------------------------------------------------------
(* The checkout directory and the teardown of its handle: claim C28, under  *)
(* SpecGit.                                                                 *)

\* the handles that setup made for the checkout directory of the source of
\* the Build i
CheckoutHandles(i) ==
  {h \in 1..Len(inner) :
     inner[h].path = CheckoutDir(build[i][1].value.source)}

\* C28: a step that takes the last owner of a handle of the checkout
\* directory away (cleanup, or the destruction of the source with its
\* Build, after a setup that succeeded or failed) removes nothing of the
\* checkout directory: the directory and what was in it are still there.
C28_CheckoutDirKept ==
  [][ \A i \in Builds :
        (IsSome(build[i]) /\ build[i][1].ok) =>
          \A h \in CheckoutHandles(i) :
            (inner[h].strong > 0 /\ inner'[h].strong = 0) =>
              \A q \in fs :
                IsPrefix(CheckoutDir(build[i][1].value.source), q) => q \in fs'
    ]_vars

\* setup cloned, cleanup was called, a second setup fetched, the Build was
\* destroyed: both handles have lost their owners and the checkout
\* directory with its .git is in place
C28_Witness ==
  /\ 1 \in dropped
  /\ Len(EventsOf(1, "cleanup")) = 1
  /\ Cardinality(CheckoutHandles(1)) = 2
  /\ \A h \in CheckoutHandles(1) : inner[h].strong = 0
  /\ \A k \in 1..2 : SetupCalls(1)[k].ok
  /\ Join(CheckoutDir(build[1][1].value.source), DotGit) \in fs

-----------------------------------------------------------------------------
(* The BuildResult of a failed meson step: claim C29, under SpecMeson.      *)

\* the positions of the run r where the step returned Err
StepErrors(r) == {p \in At(r, "step_end") : ~r[p].ok}
\* C29: when the meson step returns Err (a failed setup, promotion,
\* compile or install subprocess, or a manifest line that does not parse)
\* the BuildResult it was given holds what it held before the step: no
\* library, no search path and no emission was added.
C29_FailedStepAddsNothing ==
  \A i \in Builds : \A r \in MesonRuns(i) :
    \A p \in StepErrors(r) :
      r[p].result = [libraries |-> <<>>, library_paths |-> <<>>,
                     custom_compiler_emits |-> <<>>]

\* install printed "Installing y.so to /o", a library in a directory, and
\* then a line without " to ": the step returned Err with nothing added
C29_Witness ==
  \E r \in MesonRuns(1) : \E p \in StepErrors(r) :
    /\ p > 1
    /\ r[p - 1].ev = "cmd" /\ r[p - 1].ok
    /\ r[p - 1].info = <<"install", <<InstallYSo, InstallNoTarget>>>>
    /\ r[p].result.libraries = <<>>

=============================================================================
